---------------------------- MODULE Spec2Model ----------------------------
(***************************************************************************)
(* CV Analyzer scoring and matching pipeline (cv-analyzer-ai) as a state   *)
(* machine.  ScoringEngine and SkillMatcher are stateless services: every  *)
(* public or private method is a call that takes its arguments, computes a *)
(* result and returns.  A call is one action; Return brings the service    *)
(* back to idle.                                                           *)
(*                                                                         *)
(* Numbers.  Python floats are modelled by exact integers in thousandths   *)
(* of a point (90.0 is 90000).  Weights are integer percents.  Similarity  *)
(* ratios are exact fractions <<num, den>>.                                *)
(*                                                                         *)
(* Dictionaries are functions with a string domain; the empty dictionary   *)
(* is <<>>, d.get(k, v) is Get(d, k, v).  A list that the code only ever   *)
(* measures with len() is represented by its length, a dictionary that the *)
(* code only filters and counts by the number of entries that pass the     *)
(* filter.                                                                 *)
(***************************************************************************)
EXTENDS Integers, Sequences, FiniteSets, TLC

VARIABLES
    se_call,      \* ScoringEngine: the method in progress, "idle" when none
    se_args,      \* ScoringEngine: the arguments of that call
    se_result,    \* ScoringEngine: the value the call returns (a number as [score |-> n])
    se_self,      \* ScoringEngine: the fields of the object, default_weights and score_ranges
    se_previous,  \* ScoringEngine: the last calculate_overall_score call that has returned
    sm_call,      \* SkillMatcher: the method in progress, "idle" when none
    sm_args,      \* SkillMatcher: the arguments of that call
    sm_result,    \* SkillMatcher: the value the call returns
    batch_pc,     \* batch_analyze_cvs: "idle", "loop", "returned" or "raised"
    files,        \* batch_analyze_cvs: the uploads, each named by what happens to it
    batch_index,  \* batch_analyze_cvs: how many files the loop has been through
    completed,    \* batch_analyze_cvs: the counter completed
    failed,       \* batch_analyze_cvs: the counter failed
    results,      \* batch_analyze_cvs: the list results
    batch_response, \* batch_analyze_cvs: the BatchAnalysisResponse or the HTTP error
    rj_pc,        \* extract_data_fields: "idle", "loop", "parse", "returned" or "raised"
    rj_pdf,       \* extract_data_fields: the PDF in file_bytes
    attempts,     \* extract_data_fields: the counter attempts
    response,     \* extract_data_fields: the last value of generate_content(prompt)
    api_calls,    \* extract_data_fields: calls of generate_content so far
    sleep_seconds, \* extract_data_fields: seconds spent in time.sleep so far
    rj_result,    \* extract_data_fields: the dictionary returned
    jm_call,      \* JobMatcher: the method in progress, "idle" when none
    jm_args,      \* JobMatcher: the arguments of that call
    jm_result,    \* JobMatcher: the value the call returns
    api_key,      \* the APIKey row of the request: limits and usage counters as committed
    analyze_pc,   \* analyze_cv: "idle", "validated", "recorded", "completed", "counted",
                  \* "handling" (in the handler of the inner try) or "responded"
    cv_record,    \* analyze_cv: the status of the CVAnalysis row cv_analysis, in the session
                  \* and as committed
    pending_usage, \* analyze_cv: the usage counters are changed in the session, not committed
    http_status,  \* analyze_cv, match_cv_against_job: the status code answered, 0 before
    main_pc,      \* main of Rajee.py: "idle" between two runs of the script, "processing"
                  \* inside the loop of the extract button
    cached_uploaded_files, \* st.session_state['cached_uploaded_files']: the names, in order
    all_extracted_data,    \* st.session_state.all_extracted_data
    processing_complete,   \* st.session_state.processing_complete
    file_index,   \* main: how many cached files the loop has been through
    spreadsheet   \* main: the rows of the spreadsheet the page offers, <<>> when none

se_vars == <<se_call, se_args, se_result, se_self, se_previous>>
sm_vars == <<sm_call, sm_args, sm_result>>
api_vars == <<batch_pc, files, batch_index, completed, failed, results, batch_response>>
rj_vars == <<rj_pc, rj_pdf, attempts, response, api_calls, sleep_seconds, rj_result>>
jm_vars == <<jm_call, jm_args, jm_result>>
key_vars == <<api_key, analyze_pc, cv_record, pending_usage, http_status>>
st_vars == <<main_pc, cached_uploaded_files, all_extracted_data, processing_complete,
             file_index, spreadsheet>>
rest_vars == <<api_vars, rj_vars, jm_vars, key_vars, st_vars>>
vars == <<se_vars, sm_vars, rest_vars>>

---------------------------------------------------------------------------
(* Bounds of the model.                                                    *)

\* the defaults of the limits of an API key (app/models/api_key_model.py)
requests_per_minute == 100
requests_per_hour == 1000
requests_per_day == 10000

MaxTech == 21          \* technical skills in a CV (the cap of 40 points is reached at 20)
MaxCat == 7            \* non-empty skill categories (cap of 30 points at 6)
MaxSoft == 8           \* soft skills (cap of 15 points at 8)
MaxFreq == 6           \* skills mentioned more than twice (cap of 15 points at 5)
MaxHalfYears == 14     \* total_years, counted in half years (cap of 50 points at 6.25 years)
MaxKeywords == 11      \* experience keywords found (cap of 20 points at 10)
MaxDegrees == 4        \* degrees found (cap of 10 points at 4)
MaxSections == 7       \* structured sections with content (cap of 30 points at 6)
MaxContacts == 7       \* filled contact fields (cap of 30 points at 6)

---------------------------------------------------------------------------
(* Python helpers.                                                         *)

Get(d, k, default) == IF k \in DOMAIN d THEN d[k] ELSE default

Min(a, b) == IF a <= b THEN a ELSE b

Max(a, b) == IF a >= b THEN a ELSE b

Points(n) == n * 1000

\* round(x, ndigits) on a value x given in thousandths; q is the size of the
\* last kept digit in thousandths (100 for one decimal).  The result is the
\* set of values Python can return: the nearest multiple of q, and both
\* neighbours when x lies exactly halfway, because the binary float that
\* stands for x may lie on either side of the decimal tie.
Round(x, q) ==
    LET lo == (x \div q) * q
        r == x - lo
    IN  IF 2 * r < q THEN {lo}
        ELSE IF 2 * r > q THEN {lo + q}
        ELSE {lo, lo + q}

---------------------------------------------------------------------------
(* ScoringEngine.__init__                                                  *)

Components == <<"skills", "experience", "education", "quality">>

default_weights ==
    [skills |-> 40, experience |-> 30, education |-> 20, quality |-> 10]

score_ranges ==
    << [grade |-> "excellent", min_score |-> 90, max_score |-> 100],
       [grade |-> "very_good", min_score |-> 80, max_score |-> 89],
       [grade |-> "good",      min_score |-> 70, max_score |-> 79],
       [grade |-> "fair",      min_score |-> 60, max_score |-> 69],
       [grade |-> "poor",      min_score |-> 0,  max_score |-> 59] >>

---------------------------------------------------------------------------
(* ScoringEngine: component scores.                                        *)

\* A variant that scores the share of the technical skills mentioned more
\* than twice instead of their number (sensitivity of C15).
SkillsScoreFrequencyShare(skills_data) ==
    IF DOMAIN skills_data = {} THEN 0
    ELSE LET technical_skills == Get(skills_data, "technical_skills", 0)
             skill_count_score == Min(40, technical_skills * 2)
             diversity_score   == Min(30, Get(skills_data, "skill_categories", 0) * 5)
             soft_skills_score == Min(15, Get(skills_data, "soft_skills", 0) * 2)
             frequency_score   == Min(15, (Get(skills_data, "skill_frequency", 0) * 15)
                                            \div (technical_skills + 1))
         IN  Points(skill_count_score + diversity_score + soft_skills_score + frequency_score)

_calculate_skills_score(skills_data) ==
    IF DOMAIN skills_data = {} THEN 0
    ELSE LET skill_count_score == Min(40, Get(skills_data, "technical_skills", 0) * 2)
             diversity_score   == Min(30, Get(skills_data, "skill_categories", 0) * 5)
             soft_skills_score == Min(15, Get(skills_data, "soft_skills", 0) * 2)
             frequency_score   == Min(15, Get(skills_data, "skill_frequency", 0) * 3)
         IN  Points(skill_count_score + diversity_score + soft_skills_score + frequency_score)

\* A variant without the cap of 50 on the years factor (sensitivity of C3).
UncappedExperienceScore(experience_data) ==
    IF DOMAIN experience_data = {} THEN 0
    ELSE LET years_score    == Get(experience_data, "total_years", 0) * 4000
             quality_score  == Get(experience_data, "experience_quality_score", 0) * 300
             keywords_score == Points(Min(20, Get(experience_data, "keywords_found", 0) * 2))
         IN  years_score + quality_score + keywords_score

\* total_years is counted in half years, so total_years * 8 is 4 points per unit.
_calculate_experience_score(experience_data) ==
    IF DOMAIN experience_data = {} THEN 0
    ELSE LET years_score    == Min(Points(50), Get(experience_data, "total_years", 0) * 4000)
             quality_score  == Get(experience_data, "experience_quality_score", 0) * 300
             keywords_score == Points(Min(20, Get(experience_data, "keywords_found", 0) * 2))
         IN  years_score + quality_score + keywords_score

_calculate_education_score(education_data) ==
    IF DOMAIN education_data = {} THEN Points(30)
    ELSE LET education_level_score == Get(education_data, "education_level_score", 0)
             degree_bonus == Min(10, Get(education_data, "degrees", 0) * 3)
         IN  Points(Min(100, education_level_score + degree_bonus))

_calculate_quality_score(quality_data, cv_analysis) ==
    IF DOMAIN quality_data = {} THEN Points(50)
    ELSE LET text_quality == Get(quality_data, "quality_score", 50)
             structured_sections == Get(cv_analysis, "structured_sections", <<>>)
             completeness == Get(structured_sections, "nonblank", 0)
             completeness_score == Min(30, completeness * 5)
             contact_info == Get(cv_analysis, "contact_info", <<>>)
             contact_completeness == Get(contact_info, "filled", 0)
             contact_score == Min(30, contact_completeness * 5)
         IN  text_quality * 400 + Points(completeness_score) + Points(contact_score)

_calculate_component_scores(cv_analysis, job_requirements) ==
    [skills     |-> _calculate_skills_score(Get(cv_analysis, "skills_analysis", <<>>)),
     experience |-> _calculate_experience_score(Get(cv_analysis, "experience_analysis", <<>>)),
     education  |-> _calculate_education_score(Get(cv_analysis, "education_analysis", <<>>)),
     quality    |-> _calculate_quality_score(Get(cv_analysis, "text_quality", <<>>), cv_analysis)]

---------------------------------------------------------------------------
(* ScoringEngine: grade, percentile, overall score.                        *)

\* grade.replace("_", " ").title()
GradeTitle ==
    [excellent |-> "Excellent", very_good |-> "Very Good", good |-> "Good",
     fair |-> "Fair", poor |-> "Poor"]

InRange(score, range) ==
    Points(range.min_score) <= score /\ score <= Points(range.max_score)

\* for grade, (min_score, max_score) in self.score_ranges.items()
_determine_score_grade(score) ==
    IF \E i \in DOMAIN se_self.score_ranges : InRange(score, se_self.score_ranges[i])
    THEN LET first == CHOOSE i \in DOMAIN se_self.score_ranges :
                          /\ InRange(score, se_self.score_ranges[i])
                          /\ \A j \in 1..(i - 1) : ~InRange(score, se_self.score_ranges[j])
         IN  GradeTitle[se_self.score_ranges[first].grade]
    ELSE "Unknown"

_calculate_percentile_rank(score) ==
    IF score >= Points(90) THEN 95
    ELSE IF score >= Points(80) THEN 85
    ELSE IF score >= Points(70) THEN 70
    ELSE IF score >= Points(60) THEN 50
    ELSE IF score >= Points(50) THEN 30
    ELSE 15

\* A variant that ignores the custom weights (sensitivity of C1).
AlwaysDefaultWeights(custom_weights) == default_weights

\* weights = custom_weights or self.default_weights
EffectiveWeights(custom_weights) ==
    IF DOMAIN custom_weights = {} THEN se_self.default_weights ELSE custom_weights

\* weighted_score = score * weight, weight given in percent
WeightedScore(score, weight) == (score * weight) \div 100

\* The loop of calculate_overall_score over component_scores.items():
\* the running overall_score after the first n components.
RECURSIVE AccumulateScore(_, _, _)
AccumulateScore(component_scores, weights, n) ==
    IF n = 0 THEN 0
    ELSE AccumulateScore(component_scores, weights, n - 1)
         + WeightedScore(component_scores[Components[n]],
                         Get(weights, Components[n], 0))

\* The weights are binary floats (0.4, 0.3, ...), so the accumulated float
\* differs from the exact sum by a rounding error that may fall either side;
\* one thousandth stands for that error, far below every step of the scores.
\* Terms that are all zero add up exactly.
FloatError(component_scores, weights) ==
    IF \A i \in DOMAIN Components :
          WeightedScore(component_scores[Components[i]], Get(weights, Components[i], 0)) = 0
    THEN {0}
    ELSE {-1, 0, 1}

\* round(x, ndigits) when the float that stands for x lies above (up) or
\* below a decimal tie; away from a tie the direction plays no part.
RoundAt(x, q, up) ==
    CHOOSE v \in Round(x, q) : \A w \in Round(x, q) : IF up THEN w <= v ELSE v <= w

\* The outcomes of the float arithmetic of one call: the error of the
\* accumulated sum and the side of the tie.  The same operations on the same
\* values give the same outcome every time.
FloatOutcomes(cv_analysis, job_requirements, custom_weights) ==
    [error : FloatError(_calculate_component_scores(cv_analysis, job_requirements),
                        EffectiveWeights(custom_weights)),
     up    : BOOLEAN]

\* component.title()
ComponentTitle ==
    [skills |-> "Skills", experience |-> "Experience", education |-> "Education",
     quality |-> "Quality"]

RECURSIVE StrengthsFromEighty(_, _)
StrengthsFromEighty(component_scores, i) ==
    IF i > Len(Components) THEN <<>>
    ELSE LET component == Components[i]
             score == component_scores[component]
         IN  (IF score >= Points(80) THEN << <<"Excellent", component, "profile">> >>
              ELSE <<>>)
             \o StrengthsFromEighty(component_scores, i + 1)

RECURSIVE _identify_scoring_strengths(_, _)
\* the loop of _identify_scoring_strengths from the i-th component on; an
\* entry f"Excellent {component} profile" is written as the tuple of its words
_identify_scoring_strengths(component_scores, i) ==
    IF i > Len(Components) THEN <<>>
    ELSE LET component == Components[i]
             score == component_scores[component]
         IN  (IF score >= Points(80) THEN << <<"Excellent", component, "profile">> >>
              ELSE IF score >= Points(70) THEN << <<"Strong", component, "background">> >>
              ELSE <<>>)
             \o _identify_scoring_strengths(component_scores, i + 1)

RECURSIVE _identify_improvement_areas(_, _)
_identify_improvement_areas(component_scores, i) ==
    IF i > Len(Components) THEN <<>>
    ELSE LET component == Components[i]
             score == component_scores[component]
         IN  (IF score < Points(60)
              THEN << <<ComponentTitle[component], "development needed">> >>
              ELSE IF score < Points(70)
              THEN << <<ComponentTitle[component], "enhancement opportunity">> >>
              ELSE <<>>)
             \o _identify_improvement_areas(component_scores, i + 1)

\* The result of calculate_overall_score under one outcome of the arithmetic.
OverallScoreResult(cv_analysis, job_requirements, custom_weights, float) ==
    LET weights == EffectiveWeights(custom_weights)
        component_scores == _calculate_component_scores(cv_analysis, job_requirements)
        exact_score == AccumulateScore(component_scores, weights, Len(Components))
    IN  [overall_score    |-> RoundAt(exact_score + float.error, 100, float.up),
         component_scores |-> component_scores,
         score_grade      |-> _determine_score_grade(exact_score + float.error),
         strengths        |-> _identify_scoring_strengths(component_scores, 1),
         improvement_areas |-> _identify_improvement_areas(component_scores, 1),
         percentile_rank  |-> _calculate_percentile_rank(exact_score + float.error)]

\* The results calculate_overall_score can return (one per outcome of the
\* float arithmetic and of round()).
calculate_overall_score(cv_analysis, job_requirements, custom_weights) ==
    { OverallScoreResult(cv_analysis, job_requirements, custom_weights, float)
        : float \in FloatOutcomes(cv_analysis, job_requirements, custom_weights) }

---------------------------------------------------------------------------
(* ScoringEngine: job compatibility percentage.                            *)

_calculate_compatibility_adjustments(cv_analysis) ==
    LET quality_data == Get(cv_analysis, "text_quality", <<>>)
        quality_score == Get(quality_data, "quality_score", 50)
        quality_adjustment ==
            IF quality_score > 80 THEN Points(5)
            ELSE IF quality_score < 40 THEN 0 - Points(5)
            ELSE 0
        structured_sections == Get(cv_analysis, "structured_sections", <<>>)
        complete_sections == Get(structured_sections, "long", 0)
        completeness_adjustment ==
            IF complete_sections >= 4 THEN Points(3)
            ELSE IF complete_sections <= 1 THEN 0 - Points(3)
            ELSE 0
        experience_adjustment == 0
    IN  [quality_adjustment      |-> quality_adjustment,
         completeness_adjustment |-> completeness_adjustment,
         experience_adjustment   |-> experience_adjustment,
         total_adjustment        |-> quality_adjustment + completeness_adjustment
                                     + experience_adjustment]

\* A variant whose bands exclude their lower bound (sensitivity of C11).
MatchLevelAboveBound(compatibility_percentage) ==
    IF compatibility_percentage > Points(90) THEN "Excellent Match"
    ELSE IF compatibility_percentage > Points(80) THEN "Very Good Match"
    ELSE IF compatibility_percentage > Points(70) THEN "Good Match"
    ELSE IF compatibility_percentage > Points(60) THEN "Fair Match"
    ELSE "Poor Match"

_determine_match_level(compatibility_percentage) ==
    IF compatibility_percentage >= Points(90) THEN "Excellent Match"
    ELSE IF compatibility_percentage >= Points(80) THEN "Very Good Match"
    ELSE IF compatibility_percentage >= Points(70) THEN "Good Match"
    ELSE IF compatibility_percentage >= Points(60) THEN "Fair Match"
    ELSE "Poor Match"

\* adjusted_compatibility = min(100.0, base_compatibility + total_adjustment)
AdjustedCompatibility(base_compatibility, total_adjustment) ==
    Min(Points(100), base_compatibility + total_adjustment)

calculate_compatibility_percentage(cv_analysis, job_compatibility) ==
    LET base_compatibility == Get(job_compatibility, "overall_compatibility", 0)
        adjustment_factors == _calculate_compatibility_adjustments(cv_analysis)
        adjusted_compatibility ==
            AdjustedCompatibility(base_compatibility, adjustment_factors.total_adjustment)
    IN  { [compatibility_percentage |-> rounded,
           match_level |-> _determine_match_level(adjusted_compatibility)]
          : rounded \in Round(adjusted_compatibility, 100) }

---------------------------------------------------------------------------
(* Inputs of the ScoringEngine calls.                                      *)

\* min(100, ...) of the analyzer: the largest quality score it produces
MaxQualityScore == 100

\* experience_quality_score and quality_score, in steps of 5 as
\* MLAnalyzer._analyze_experience produces them
QualityScores == {q \in 0..MaxQualityScore : q % 5 = 0}

\* education_level_score as MLAnalyzer._analyze_education produces it
EducationLevels == {0, 40, 60, 80, 100}

SkillsDataSet ==
    {<<>>} \cup [technical_skills : 0..MaxTech, skill_categories : 0..MaxCat,
                 soft_skills : 0..MaxSoft, skill_frequency : 0..MaxFreq]

ExperienceDataSet ==
    {<<>>} \cup [total_years : 0..MaxHalfYears,
                 experience_quality_score : QualityScores,
                 keywords_found : 0..MaxKeywords]

EducationDataSet ==
    {<<>>} \cup [education_level_score : EducationLevels, degrees : 0..MaxDegrees]

\* a text_quality dictionary without the quality_score key has other keys only
QualityDataSet ==
    {<<>>, [word_count |-> 0]} \cup [quality_score : QualityScores]

\* The analyses calculate_overall_score is called with: a few of each
\* component, all combinations.
OverallCvSet ==
    { [skills_analysis     |-> sk,
       experience_analysis |-> ex,
       education_analysis  |-> ed,
       text_quality        |-> tq,
       structured_sections |-> [nonblank |-> MaxSections, long |-> 0],
       contact_info        |-> [filled |-> co]]
      : sk \in {<<>>} \cup [technical_skills : {10, MaxTech}, skill_categories : {3, MaxCat},
                            soft_skills : {MaxSoft}, skill_frequency : {MaxFreq}],
        ex \in {<<>>} \cup [total_years : {2, MaxHalfYears},
                            experience_quality_score : {55, MaxQualityScore},
                            keywords_found : {MaxKeywords}],
        ed \in {<<>>} \cup [education_level_score : {60, 80, 100}, degrees : {1}],
        tq \in {<<>>} \cup [quality_score : {45, 95}],
        co \in {2, MaxContacts} }

ComponentSet == {Components[i] : i \in DOMAIN Components}

WeightPercents == {10, 20, 30, 40, 70}

\* custom_weights: None (the empty function) or percents that sum to 1.0
CustomWeightSet ==
    {<<>>} \cup {w \in [ComponentSet -> WeightPercents] :
                    w.skills + w.experience + w.education + w.quality = 100}

\* overall scores in steps of 0.1
ScoreSet == {s \in 0..Points(100) : s % 100 = 0}

CompatibilityCvSet ==
    { [text_quality |-> tq, structured_sections |-> [nonblank |-> n, long |-> n]]
      : tq \in QualityDataSet, n \in 0..MaxSections }

\* job_compatibility: without the key, or overall_compatibility in whole points
JobCompatibilitySet ==
    {<<>>} \cup [overall_compatibility : {Points(b) : b \in 0..100}]

---------------------------------------------------------------------------
(* ScoringEngine: the calls.                                               *)

SeIdle == se_call = "idle"

\* No method assigns a field of self; se_previous changes when a
\* calculate_overall_score call returns.
SeCall(name, args, result) ==
    /\ se_call' = name
    /\ se_args' = args
    /\ se_result' = result
    /\ UNCHANGED <<se_self, se_previous>>
    /\ UNCHANGED <<sm_vars, rest_vars>>

CalculateSkillsScore ==
    /\ SeIdle
    /\ \E skills_data \in SkillsDataSet :
        SeCall("_calculate_skills_score", [skills_data |-> skills_data],
               [score |-> _calculate_skills_score(skills_data)])

CalculateExperienceScore ==
    /\ SeIdle
    /\ \E experience_data \in ExperienceDataSet :
        SeCall("_calculate_experience_score", [experience_data |-> experience_data],
               [score |-> _calculate_experience_score(experience_data)])

CalculateEducationScore ==
    /\ SeIdle
    /\ \E education_data \in EducationDataSet :
        SeCall("_calculate_education_score", [education_data |-> education_data],
               [score |-> _calculate_education_score(education_data)])

CalculateQualityScore ==
    /\ SeIdle
    /\ \E quality_data \in QualityDataSet, n \in 0..MaxSections, co \in 0..MaxContacts :
        LET cv_analysis == [text_quality |-> quality_data,
                            structured_sections |-> [nonblank |-> n, long |-> 0],
                            contact_info |-> [filled |-> co]]
        IN  SeCall("_calculate_quality_score",
                   [quality_data |-> quality_data, cv_analysis |-> cv_analysis],
                   [score |-> _calculate_quality_score(quality_data, cv_analysis)])

DetermineScoreGrade ==
    /\ SeIdle
    /\ \E score \in ScoreSet :
        SeCall("_determine_score_grade", [score |-> score],
               [score_grade |-> _determine_score_grade(score)])

CalculateOverallScore ==
    /\ SeIdle
    /\ \E cv_analysis \in OverallCvSet, custom_weights \in CustomWeightSet :
        \E result \in calculate_overall_score(cv_analysis, <<>>, custom_weights) :
            SeCall("calculate_overall_score",
                   [cv_analysis |-> cv_analysis, job_requirements |-> <<>>,
                    custom_weights |-> custom_weights],
                   result)

CalculateCompatibilityPercentage ==
    /\ SeIdle
    /\ \E cv_analysis \in CompatibilityCvSet, job_compatibility \in JobCompatibilitySet :
        \E result \in calculate_compatibility_percentage(cv_analysis, job_compatibility) :
            SeCall("calculate_compatibility_percentage",
                   [cv_analysis |-> cv_analysis, job_compatibility |-> job_compatibility],
                   result)

SeReturn ==
    /\ ~SeIdle
    /\ se_call' = "idle"
    /\ se_args' = <<>>
    /\ se_result' = <<>>
    /\ UNCHANGED <<se_self, se_previous>>
    /\ UNCHANGED <<sm_vars, rest_vars>>

\* A key as create_api_key stores it: the limits are the defaults of the
\* columns, the usage counters 0.
NewKey ==
    [requests_per_minute |-> requests_per_minute, requests_per_hour |-> requests_per_hour,
     requests_per_day |-> requests_per_day, total_requests |-> 0, requests_today |-> 0,
     requests_this_hour |-> 0, requests_this_minute |-> 0]

\* The state after construction, but for the key of the request.
InitServices ==
    /\ se_call = "idle"
    /\ se_args = <<>>
    /\ se_result = <<>>
    /\ se_self = [default_weights |-> default_weights, score_ranges |-> score_ranges]
    /\ se_previous = [called |-> FALSE, pending |-> <<>>]
    /\ sm_call = "idle"
    /\ sm_args = <<>>
    /\ sm_result = <<>>
    /\ batch_pc = "idle"
    /\ files = <<>>
    /\ batch_index = 0
    /\ completed = 0
    /\ failed = 0
    /\ results = <<>>
    /\ batch_response = <<>>
    /\ rj_pc = "idle"
    /\ rj_pdf = <<>>
    /\ attempts = 0
    /\ response = [kind |-> "none", fields |-> {}]
    /\ api_calls = 0
    /\ sleep_seconds = 0
    /\ rj_result = <<>>
    /\ jm_call = "idle"
    /\ jm_args = <<>>
    /\ jm_result = <<>>
    /\ analyze_pc = "idle"
    /\ cv_record = [session |-> "none", committed |-> "none"]
    /\ pending_usage = FALSE
    /\ http_status = 0
    /\ main_pc = "idle"
    /\ cached_uploaded_files = <<>>
    /\ all_extracted_data = <<>>
    /\ processing_complete = FALSE
    /\ file_index = 0
    /\ spreadsheet = <<>>

Init == InitServices /\ api_key = NewKey

Next ==
    \/ CalculateSkillsScore
    \/ CalculateExperienceScore
    \/ CalculateEducationScore
    \/ CalculateQualityScore
    \/ DetermineScoreGrade
    \/ CalculateOverallScore
    \/ CalculateCompatibilityPercentage
    \/ SeReturn

Spec == Init /\ [][Next]_vars

---------------------------------------------------------------------------
(* Strings.  A skill name is a sequence of one-character strings.          *)

UpperCase == <<"A","B","C","D","E","F","G","H","I","J","K","L","M",
               "N","O","P","Q","R","S","T","U","V","W","X","Y","Z">>

LowerCase == <<"a","b","c","d","e","f","g","h","i","j","k","l","m",
               "n","o","p","q","r","s","t","u","v","w","x","y","z">>

LowerMap ==
    [c \in {UpperCase[i] : i \in DOMAIN UpperCase} |->
        LowerCase[CHOOSE i \in DOMAIN UpperCase : UpperCase[i] = c]]

LowerChar(c) == IF c \in DOMAIN LowerMap THEN LowerMap[c] ELSE c

\* str.lower()
Lower(str) == [i \in DOMAIN str |-> LowerChar(str[i])]

---------------------------------------------------------------------------
(* Fractions <<num, den>> with den > 0.                                    *)

FracGt(x, y) == x[1] * y[2] > y[1] * x[2]

FracGe(x, y) == x[1] * y[2] >= y[1] * x[2]

\* round(num / den) to an integer, a tie going to the even neighbour.  The
\* ties the matcher meets are exact in binary (the ratio .875) or do not
\* occur for lists and strings of the modelled sizes, so round() is determined.
RoundHalfEven(num, den) ==
    LET lo == num \div den
        r == num - lo * den
    IN  IF 2 * r < den THEN lo
        ELSE IF 2 * r > den THEN lo + 1
        ELSE IF lo % 2 = 0 THEN lo ELSE lo + 1

---------------------------------------------------------------------------
(* difflib.SequenceMatcher(None, a, b).ratio(): no junk, and autojunk only *)
(* applies to sequences of 200 or more elements.  Positions are 0-based as *)
(* in difflib, a[i] of Python is a[i + 1] here.                            *)

\* length of the common run of a[i:ahi] and b[j:bhi]
RECURSIVE RunLength(_, _, _, _, _, _)
RunLength(a, b, i, j, ahi, bhi) ==
    IF i < ahi /\ j < bhi /\ a[i + 1] = b[j + 1]
    THEN 1 + RunLength(a, b, i + 1, j + 1, ahi, bhi)
    ELSE 0

\* every block a[i:i+size] = b[j:j+size] that is maximal to the right
MatchingBlocks(a, b, alo, ahi, blo, bhi) ==
    { [i |-> p[1], j |-> p[2], size |-> RunLength(a, b, p[1], p[2], ahi, bhi)]
      : p \in (alo..(ahi - 1)) \X (blo..(bhi - 1)) }

\* of all the longest blocks the one that starts earliest in a, and of those
\* the earliest in b; when nothing matches this is (alo, blo, 0) as in difflib
LongestOf(blocks) ==
    CHOOSE m \in blocks : \A q \in blocks :
        \/ q.size < m.size
        \/ /\ q.size = m.size
           /\ \/ m.i < q.i
              \/ m.i = q.i /\ m.j <= q.j

find_longest_match(a, b, alo, ahi, blo, bhi) ==
    IF alo >= ahi \/ blo >= bhi THEN [i |-> alo, j |-> blo, size |-> 0]
    ELSE LongestOf(MatchingBlocks(a, b, alo, ahi, blo, bhi))

\* the sum of the sizes of get_matching_blocks() on a[alo:ahi], b[blo:bhi]:
\* the longest block m, then the blocks to its left and to its right
RECURSIVE MatchingSize(_, _, _, _, _, _)
MatchingSize(a, b, alo, ahi, blo, bhi) ==
    CHOOSE total \in
        { IF m.size = 0 THEN 0
          ELSE m.size
               + (IF alo < m.i /\ blo < m.j
                  THEN MatchingSize(a, b, alo, m.i, blo, m.j) ELSE 0)
               + (IF m.i + m.size < ahi /\ m.j + m.size < bhi
                  THEN MatchingSize(a, b, m.i + m.size, ahi, m.j + m.size, bhi) ELSE 0)
          : m \in {find_longest_match(a, b, alo, ahi, blo, bhi)} } : TRUE

\* ratio() = 2.0 * matches / (len(a) + len(b)), 1.0 for two empty sequences
Ratio(a, b) ==
    IF Len(a) + Len(b) = 0 THEN <<1, 1>>
    ELSE <<2 * MatchingSize(a, b, 0, Len(a), 0, Len(b)), Len(a) + Len(b)>>

---------------------------------------------------------------------------
(* The skill names of the modelled calls.                                  *)

\* Python, vuex, vuejs, ML, machine learning
CvSkillUniverse ==
    { <<"P", "y", "t", "h", "o", "n">>,
      <<"v", "u", "e", "x">>,
      <<"v", "u", "e", "j", "s">>,
      <<"M", "L">>,
      <<"m", "a", "c", "h", "i", "n", "e", " ", "l", "e", "a", "r", "n", "i", "n", "g">> }

\* vue.js
SoftSkillUniverse ==
    { <<"v", "u", "e", ".", "j", "s">> }

\* python, vue, AI
RequiredSkillUniverse ==
    { <<"p", "y", "t", "h", "o", "n">>,
      <<"v", "u", "e">>,
      <<"A", "I">> }

\* vue, AI
PreferredSkillUniverse ==
    { <<"v", "u", "e">>,
      <<"A", "I">> }

\* the skill match scenario of the specification: CV skills Python, React,
\* SQL against the required skills python, react, vue; nothing preferred
ScenarioCall ==
    [cv_skills |->
        [technical_skills |-> << <<"P", "y", "t", "h", "o", "n">>,
                              <<"R", "e", "a", "c", "t">>,
                              <<"S", "Q", "L">> >>,
         soft_skills |-> <<>>],
     job_requirements |->
        [required_skills |-> << <<"p", "y", "t", "h", "o", "n">>,
                             <<"r", "e", "a", "c", "t">>,
                             <<"v", "u", "e">> >>,
         preferred_skills |-> <<>>]]

Range(l) == {l[i] : i \in DOMAIN l}

UpperMap ==
    [c \in {LowerCase[i] : i \in DOMAIN LowerCase} |->
        UpperCase[CHOOSE i \in DOMAIN LowerCase : LowerCase[i] = c]]

IsLetter(c) == c \in DOMAIN UpperMap \/ c \in DOMAIN LowerMap

\* str.title(): a letter that follows no letter is upper-cased, any other
\* letter lower-cased ("node.js" becomes "Node.Js")
Title(str) ==
    [i \in DOMAIN str |->
        IF i = 1 \/ ~IsLetter(str[i - 1])
        THEN (IF str[i] \in DOMAIN UpperMap THEN UpperMap[str[i]] ELSE str[i])
        ELSE LowerChar(str[i])]

\* common_skills of _extract_job_requirements
common_skills ==
    << <<"p", "y", "t", "h", "o", "n">>,
       <<"j", "a", "v", "a">>,
       <<"j", "a", "v", "a", "s", "c", "r", "i", "p", "t">>,
       <<"r", "e", "a", "c", "t">>,
       <<"a", "n", "g", "u", "l", "a", "r">>,
       <<"n", "o", "d", "e", ".", "j", "s">>,
       <<"s", "q", "l">>,
       <<"a", "w", "s">>,
       <<"d", "o", "c", "k", "e", "r">>,
       <<"k", "u", "b", "e", "r", "n", "e", "t", "e", "s">>,
       <<"m", "a", "c", "h", "i", "n", "e", " ", "l", "e", "a", "r", "n", "i", "n", "g">>,
       <<"d", "a", "t", "a", " ", "s", "c", "i", "e", "n", "c", "e">> >>

\* the common skills a modelled job description mentions: python, java,
\* javascript, machine learning
MentionedSkills == {1, 2, 3, 11}

\* Python, JS, ML: the CV skills of the modelled compatibility calls
JobCvSkillUniverse ==
    { <<"P", "y", "t", "h", "o", "n">>, <<"J", "S">>, <<"M", "L">> }

\* SequenceMatcher(None, a, b).ratio() for the lower-cased names of the
\* modelled calls, computed once
SimilarityTable ==
    [p \in ({Lower(c) : c \in CvSkillUniverse \cup SoftSkillUniverse
                                 \cup Range(ScenarioCall.cv_skills.technical_skills)}
            \X {Lower(r) : r \in RequiredSkillUniverse \cup PreferredSkillUniverse
                                 \cup Range(ScenarioCall.job_requirements.required_skills)})
           \cup ({Lower(c) : c \in JobCvSkillUniverse}
                 \X {common_skills[i] : i \in MentionedSkills})
       |-> Ratio(p[1], p[2])]

Similarity(a, b) ==
    IF <<a, b>> \in DOMAIN SimilarityTable THEN SimilarityTable[<<a, b>>] ELSE Ratio(a, b)

---------------------------------------------------------------------------
(* SkillMatcher.__init__                                                   *)

skill_synonyms ==
    <<
       \* javascript, js, ecmascript
       { <<"j", "a", "v", "a", "s", "c", "r", "i", "p", "t">>,
         <<"j", "s">>,
         <<"e", "c", "m", "a", "s", "c", "r", "i", "p", "t">> },
       \* typescript, ts
       { <<"t", "y", "p", "e", "s", "c", "r", "i", "p", "t">>,
         <<"t", "s">> },
       \* python, py
       { <<"p", "y", "t", "h", "o", "n">>,
         <<"p", "y">> },
       \* react, reactjs, react.js
       { <<"r", "e", "a", "c", "t">>,
         <<"r", "e", "a", "c", "t", "j", "s">>,
         <<"r", "e", "a", "c", "t", ".", "j", "s">> },
       \* angular, angularjs
       { <<"a", "n", "g", "u", "l", "a", "r">>,
         <<"a", "n", "g", "u", "l", "a", "r", "j", "s">> },
       \* vue, vuejs, vue.js
       { <<"v", "u", "e">>,
         <<"v", "u", "e", "j", "s">>,
         <<"v", "u", "e", ".", "j", "s">> },
       \* node, nodejs, node.js
       { <<"n", "o", "d", "e">>,
         <<"n", "o", "d", "e", "j", "s">>,
         <<"n", "o", "d", "e", ".", "j", "s">> },
       \* postgresql, postgres
       { <<"p", "o", "s", "t", "g", "r", "e", "s", "q", "l">>,
         <<"p", "o", "s", "t", "g", "r", "e", "s">> },
       \* mongodb, mongo
       { <<"m", "o", "n", "g", "o", "d", "b">>,
         <<"m", "o", "n", "g", "o">> },
       \* machine learning, ml, artificial intelligence, ai
       { <<"m", "a", "c", "h", "i", "n", "e", " ", "l", "e", "a", "r", "n", "i", "n", "g">>,
         <<"m", "l">>,
         <<"a", "r", "t", "i", "f", "i", "c", "i", "a", "l", " ", "i", "n", "t", "e", "l", "l", "i", "g", "e", "n", "c", "e">>,
         <<"a", "i">> },
       \* aws, amazon web services
       { <<"a", "w", "s">>,
         <<"a", "m", "a", "z", "o", "n", " ", "w", "e", "b", " ", "s", "e", "r", "v", "i", "c", "e", "s">> },
       \* gcp, google cloud platform, google cloud
       { <<"g", "c", "p">>,
         <<"g", "o", "o", "g", "l", "e", " ", "c", "l", "o", "u", "d", " ", "p", "l", "a", "t", "f", "o", "r", "m">>,
         <<"g", "o", "o", "g", "l", "e", " ", "c", "l", "o", "u", "d">> },
       \* kubernetes, k8s
       { <<"k", "u", "b", "e", "r", "n", "e", "t", "e", "s">>,
         <<"k", "8", "s">> },
       \* docker, containerization
       { <<"d", "o", "c", "k", "e", "r">>,
         <<"c", "o", "n", "t", "a", "i", "n", "e", "r", "i", "z", "a", "t", "i", "o", "n">> }
    >>

---------------------------------------------------------------------------
(* SkillMatcher: matching one list of requirements.                        *)

_are_skill_synonyms(skill1, skill2) ==
    LET skill1_lower == Lower(skill1)
        skill2_lower == Lower(skill2)
    IN  \E g \in DOMAIN skill_synonyms :
            skill1_lower \in skill_synonyms[g] /\ skill2_lower \in skill_synonyms[g]

\* best_match is None until has_match; stopped is the break of the loop
NoMatch == [has_match |-> FALSE, best_match |-> <<>>, best_score |-> <<0, 1>>,
            stopped |-> FALSE]

\* the condition of the synonym branch (line 194)
SynonymImproves(similarity, best_score) == FracGt(similarity, best_score)

\* one pass of the body of "for cv_skill in cv_skills"
MatchStep(best, cv_skill, required_skill) ==
    IF best.stopped THEN best
    ELSE IF Lower(cv_skill) = Lower(required_skill)
    THEN [has_match |-> TRUE, best_match |-> cv_skill, best_score |-> <<1, 1>>,
          stopped |-> TRUE]
    ELSE LET similarity == Similarity(Lower(cv_skill), Lower(required_skill))
             after_synonym ==
                 IF /\ _are_skill_synonyms(cv_skill, required_skill)
                    /\ SynonymImproves(similarity, best.best_score)
                 THEN [has_match |-> TRUE, best_match |-> cv_skill,
                       best_score |-> <<9, 10>>, stopped |-> FALSE]
                 ELSE best
         IN  IF FracGt(similarity, <<4, 5>>) /\ FracGt(similarity, after_synonym.best_score)
             THEN [has_match |-> TRUE, best_match |-> cv_skill,
                   best_score |-> similarity, stopped |-> FALSE]
             ELSE after_synonym

\* the inner loop over the first n candidate skills
RECURSIVE BestMatch(_, _, _)
BestMatch(cv_skills, required_skill, n) ==
    IF n = 0 THEN NoMatch
    ELSE LET before == BestMatch(cv_skills, required_skill, n - 1)
         IN  MatchStep(before, cv_skills[n], required_skill)

\* "if best_match and best_score >= 0.8": the empty string is falsy like None
IsRecorded(best) ==
    best.has_match /\ best.best_match # <<>> /\ FracGe(best.best_score, <<4, 5>>)

\* match_score = round(best_score, 2), kept in hundredths
MatchEntry(required_skill, best) ==
    [required_skill |-> required_skill,
     matched_skill  |-> best.best_match,
     match_score    |-> RoundHalfEven(100 * best.best_score[1], best.best_score[2])]

RECURSIVE FindMatchingUpTo(_, _, _)
FindMatchingUpTo(cv_skills, required_skills, n) ==
    IF n = 0 THEN <<>>
    ELSE LET best == BestMatch(cv_skills, required_skills[n], Len(cv_skills))
             before == FindMatchingUpTo(cv_skills, required_skills, n - 1)
         IN  IF IsRecorded(best)
             THEN Append(before, MatchEntry(required_skills[n], best))
             ELSE before

_find_matching_skills(cv_skills, required_skills) ==
    FindMatchingUpTo(cv_skills, required_skills, Len(required_skills))

\* found, for one required skill in _find_missing_skills
IsFound(cv_skills, required_skill) ==
    \/ \E i \in DOMAIN cv_skills : Lower(cv_skills[i]) = Lower(required_skill)
    \/ \E i \in DOMAIN cv_skills :
          \/ _are_skill_synonyms(cv_skills[i], required_skill)
          \/ FracGt(Similarity(Lower(cv_skills[i]), Lower(required_skill)), <<4, 5>>)

RECURSIVE FindMissingUpTo(_, _, _)
FindMissingUpTo(cv_skills, required_skills, n) ==
    IF n = 0 THEN <<>>
    ELSE LET before == FindMissingUpTo(cv_skills, required_skills, n - 1)
         IN  IF IsFound(cv_skills, required_skills[n]) THEN before
             ELSE Append(before, required_skills[n])

_find_missing_skills(cv_skills, required_skills) ==
    FindMissingUpTo(cv_skills, required_skills, Len(required_skills))

---------------------------------------------------------------------------
(* SkillMatcher.match_skills                                               *)

\* len(matched_skills) / len(required_skills) if required_skills else 1.0
RequiredMatchScore(matched_skills, required_skills) ==
    IF Len(required_skills) > 0 THEN <<Len(matched_skills), Len(required_skills)>>
    ELSE <<1, 1>>

\* A variant whose ratio for an empty preferred list is 1.0 (sensitivity of C5).
PreferredMatchScoreUnitDefault(matched_preferred, preferred_skills) ==
    IF Len(preferred_skills) > 0 THEN <<Len(matched_preferred), Len(preferred_skills)>>
    ELSE <<1, 1>>

\* len(matched_preferred) / len(preferred_skills) if preferred_skills else 0.5
PreferredMatchScore(matched_preferred, preferred_skills) ==
    IF Len(preferred_skills) > 0 THEN <<Len(matched_preferred), Len(preferred_skills)>>
    ELSE <<1, 2>>

\* A variant that weighs the two ratios 0.6 and 0.4 (sensitivity of C4).
OverallMatchScoreSixFour(required_match_score, preferred_match_score) ==
    << 60 * required_match_score[1] * preferred_match_score[2]
         + 40 * preferred_match_score[1] * required_match_score[2],
       required_match_score[2] * preferred_match_score[2] >>

\* overall_score = (required_match_score * 0.7) + (preferred_match_score * 0.3),
\* as a fraction of percent points: overall_score * 100
OverallMatchScore(required_match_score, preferred_match_score) ==
    << 70 * required_match_score[1] * preferred_match_score[2]
         + 30 * preferred_match_score[1] * required_match_score[2],
       required_match_score[2] * preferred_match_score[2] >>

match_skills(cv_skills, job_requirements) ==
    LET required_skills == Get(job_requirements, "required_skills", <<>>)
        preferred_skills == Get(job_requirements, "preferred_skills", <<>>)
        cv_technical_skills == Get(cv_skills, "technical_skills", <<>>)
        cv_soft_skills == Get(cv_skills, "soft_skills", <<>>)
        all_cv_skills == cv_technical_skills \o cv_soft_skills
        matched_skills == _find_matching_skills(all_cv_skills, required_skills)
        matched_preferred == _find_matching_skills(all_cv_skills, preferred_skills)
        missing_required == _find_missing_skills(all_cv_skills, required_skills)
        missing_preferred == _find_missing_skills(all_cv_skills, preferred_skills)
        overall_score ==
            OverallMatchScore(RequiredMatchScore(matched_skills, required_skills),
                              PreferredMatchScore(matched_preferred, preferred_skills))
    IN  [matched_skills    |-> matched_skills \o matched_preferred,
         missing_skills    |-> [required |-> missing_required,
                                preferred |-> missing_preferred],
         \* round(overall_score * 100, 2), in thousandths of a point
         skill_match_score |-> 10 * RoundHalfEven(100 * overall_score[1], overall_score[2]),
         \* round(overall_score * 100, 1)
         match_percentage  |-> 100 * RoundHalfEven(10 * overall_score[1], overall_score[2])]

---------------------------------------------------------------------------
(* SkillMatcher.calculate_job_compatibility.  A job description is         *)
(* modelled by what the function finds in it: mentions, the common skills  *)
(* that occur in the text (as indices of common_skills); required_word,    *)
(* whether "required", "must" or "essential" occurs; years, the numbers    *)
(* each of the three experience patterns matches.                          *)

MaxOf(S) == CHOOSE x \in S : \A y \in S : y <= x

\* the first pattern that matches decides, with the largest of its numbers
ExtractMinimumExperience(years) ==
    IF years[1] # {} THEN MaxOf(years[1])
    ELSE IF years[2] # {} THEN MaxOf(years[2])
    ELSE IF years[3] # {} THEN MaxOf(years[3])
    ELSE 0

\* the loop over common_skills: skill.title() of each skill found, in order
RECURSIVE ExtractSkillsUpTo(_, _)
ExtractSkillsUpTo(mentions, n) ==
    IF n = 0 THEN <<>>
    ELSE IF n \in mentions
         THEN Append(ExtractSkillsUpTo(mentions, n - 1), Title(common_skills[n]))
         ELSE ExtractSkillsUpTo(mentions, n - 1)

_extract_job_requirements(job_description) ==
    [required_skills    |-> IF job_description.required_word
                            THEN ExtractSkillsUpTo(job_description.mentions, Len(common_skills))
                            ELSE <<>>,
     preferred_skills   |-> IF job_description.required_word
                            THEN <<>>
                            ELSE ExtractSkillsUpTo(job_description.mentions, Len(common_skills)),
     minimum_experience |-> ExtractMinimumExperience(job_description.years),
     education_requirements |-> <<>>,
     certifications     |-> <<>>]

\* total_years is counted in half years: 5 points per excess year are 2.5
\* per half year, 15 per missing year are 7.5 per half year
_calculate_experience_compatibility(experience_data, job_requirements) ==
    LET cv_experience == Get(experience_data, "total_years", 0)
        required_experience == 2 * Get(job_requirements, "minimum_experience", 0)
    IN  IF required_experience = 0 THEN Points(75)
        ELSE IF cv_experience >= required_experience
        THEN LET bonus == Min(Points(25), (cv_experience - required_experience) * 2500)
             IN  Min(Points(100), Points(75) + bonus)
        ELSE LET penalty == (required_experience - cv_experience) * 7500
             IN  Max(0, Points(75) - penalty)

\* A variant without the 30 points of an education below every level.
EducationCompatibilityFromZero(education_data, job_requirements) ==
    LET education_score == Get(education_data, "education_level_score", 0)
    IN  IF education_score >= 100 THEN Points(100)
        ELSE IF education_score >= 80 THEN Points(90)
        ELSE IF education_score >= 60 THEN Points(75)
        ELSE IF education_score >= 40 THEN Points(60)
        ELSE 0

_calculate_education_compatibility(education_data, job_requirements) ==
    LET education_score == Get(education_data, "education_level_score", 0)
    IN  IF education_score >= 100 THEN Points(100)
        ELSE IF education_score >= 80 THEN Points(90)
        ELSE IF education_score >= 60 THEN Points(75)
        ELSE IF education_score >= 40 THEN Points(60)
        ELSE Points(30)

\* A variant that weighs the three parts 0.4 / 0.4 / 0.2 (sensitivity of C12).
compatibility_weights_even == [skills |-> 40, experience |-> 40, education |-> 20]

\* weights = {"skills": 0.5, "experience": 0.3, "education": 0.2}, in percent
compatibility_weights == [skills |-> 50, experience |-> 30, education |-> 20]

\* The results calculate_job_compatibility can return (one per outcome of
\* round() on a decimal tie).
calculate_job_compatibility(cv_analysis, job_description) ==
    LET job_requirements == _extract_job_requirements(job_description)
        cv_skills == Get(cv_analysis, "skills_analysis", <<>>)
        skill_results == match_skills(cv_skills, job_requirements)
        skill_compatibility == skill_results.skill_match_score
        experience_compatibility ==
            _calculate_experience_compatibility(
                Get(cv_analysis, "experience_analysis", <<>>), job_requirements)
        education_compatibility ==
            _calculate_education_compatibility(
                Get(cv_analysis, "education_analysis", <<>>), job_requirements)
        weights == compatibility_weights
        overall_score ==
            (skill_compatibility * weights.skills
             + experience_compatibility * weights.experience
             + education_compatibility * weights.education) \div 100
    IN  { [overall_compatibility    |-> rounded,
           skill_compatibility      |-> skill_compatibility,
           experience_compatibility |-> experience_compatibility,
           education_compatibility  |-> education_compatibility,
           compatibility_breakdown  |->
               [skills     |-> [score |-> skill_compatibility, weight |-> weights.skills],
                experience |-> [score |-> experience_compatibility,
                                weight |-> weights.experience],
                education  |-> [score |-> education_compatibility,
                                weight |-> weights.education]]]
          : rounded \in Round(overall_score, 100) }

---------------------------------------------------------------------------

(* Inputs of match_skills.                                                 *)

MaxCvSkills == 2       \* technical skills of a CV in a call
MaxSoftSkills == 1     \* soft skills of a CV in a call
MaxRequired == 2       \* required skills of a job
MaxPreferred == 1      \* preferred skills of a job

\* the lists of at most n different elements of S
ListsOf(S, n) ==
    {l \in UNION {[1..k -> S] : k \in 0..n} :
        \A i, j \in DOMAIN l : i # j => l[i] # l[j]}

MatchCallSet ==
    {ScenarioCall} \cup
    { [cv_skills |-> [technical_skills |-> tech, soft_skills |-> soft],
       job_requirements |-> [required_skills |-> req, preferred_skills |-> pref]]
      : tech \in ListsOf(CvSkillUniverse, MaxCvSkills),
        soft \in ListsOf(SoftSkillUniverse, MaxSoftSkills),
        req \in ListsOf(RequiredSkillUniverse, MaxRequired),
        pref \in ListsOf(PreferredSkillUniverse, MaxPreferred) }

\* job descriptions: a text that contains "javascript" contains "java"
JobDescriptionSet ==
    { [mentions |-> found, required_word |-> word, years |-> years]
      : found \in {s \in SUBSET MentionedSkills : 3 \in s => 2 \in s},
        word \in BOOLEAN,
        years \in { <<{}, {}, {}>>, <<{3}, {}, {}>>, <<{}, {2, 5}, {}>>, <<{2}, {5}, {4}>> } }

\* the analyses calculate_job_compatibility is called with
JobCvAnalysisSet ==
    { [skills_analysis |-> sk, experience_analysis |-> ex, education_analysis |-> ed]
      : sk \in {<<>>} \cup [technical_skills : ListsOf(JobCvSkillUniverse, MaxCvSkills),
                            soft_skills : {<<>>}],
        ex \in {<<>>} \cup [total_years : {0, 3, MaxHalfYears}],
        ed \in {<<>>} \cup [education_level_score : {60, 100}] }

---------------------------------------------------------------------------
(* SkillMatcher: the calls.                                                *)

SmIdle == sm_call = "idle"

MatchSkills ==
    /\ SmIdle
    /\ \E call \in MatchCallSet :
        /\ sm_call' = "match_skills"
        /\ sm_args' = call
        /\ sm_result' = match_skills(call.cv_skills, call.job_requirements)
    /\ UNCHANGED <<se_vars, rest_vars>>

CalculateJobCompatibility ==
    /\ SmIdle
    /\ \E cv_analysis \in JobCvAnalysisSet, job_description \in JobDescriptionSet :
        /\ sm_call' = "calculate_job_compatibility"
        /\ sm_args' = [cv_analysis |-> cv_analysis, job_description |-> job_description]
        /\ sm_result' \in calculate_job_compatibility(cv_analysis, job_description)
    /\ UNCHANGED <<se_vars, rest_vars>>

SmReturn ==
    /\ ~SmIdle
    /\ sm_call' = "idle"
    /\ sm_args' = <<>>
    /\ sm_result' = <<>>
    /\ UNCHANGED <<se_vars, rest_vars>>

NextMatch ==
    \/ MatchSkills
    \/ SmReturn

SpecMatch == Init /\ [][NextMatch]_vars

NextJob ==
    \/ CalculateJobCompatibility
    \/ SmReturn

SpecJob == Init /\ [][NextJob]_vars

---------------------------------------------------------------------------
(* Claims about the ScoringEngine, checked under Spec.                     *)

InOverallCall == se_call = "calculate_overall_score"

\* the weights a call of calculate_overall_score is made with
CallWeights ==
    IF DOMAIN se_args.custom_weights = {} THEN default_weights
    ELSE se_args.custom_weights

\* 100 times the exact weighted sum of the reported component scores
ExactWeightedSum ==
    se_result.component_scores.skills * CallWeights.skills
    + se_result.component_scores.experience * CallWeights.experience
    + se_result.component_scores.education * CallWeights.education
    + se_result.component_scores.quality * CallWeights.quality

\* C1: for weights that sum to 1.0 (the default included) the overall_score
\* of calculate_overall_score is the weighted sum of the four component
\* scores rounded to one decimal: a multiple of 0.1 at most 0.05 from it.
C1_OverallIsWeightedSum ==
    InOverallCall =>
        /\ se_result.overall_score % 100 = 0
        /\ 100 * se_result.overall_score - ExactWeightedSum <= 5000
        /\ ExactWeightedSum - 100 * se_result.overall_score <= 5000

\* a call with custom weights other than the default whose weighted sum has
\* more than one decimal, so that round() changes it
C1_Witness ==
    /\ InOverallCall
    /\ DOMAIN se_args.custom_weights # {}
    /\ se_args.custom_weights # default_weights
    /\ ExactWeightedSum % 10000 # 0
    /\ se_result.overall_score > 0

FiveGrades == {"Excellent", "Very Good", "Good", "Fair", "Poor"}

ThresholdGrade(score) ==
    IF score >= Points(90) THEN "Excellent"
    ELSE IF score >= Points(80) THEN "Very Good"
    ELSE IF score >= Points(70) THEN "Good"
    ELSE IF score >= Points(60) THEN "Fair"
    ELSE "Poor"

\* C2: for every score in [0,100], whole or not, the grade is one of the
\* five labels, chosen by lower-bound-inclusive thresholds at 90/80/70/60;
\* 89.9 is Very Good.  (The code answers "Unknown" between 89 and 90.)
C2_GradeByThresholds ==
    /\ (se_call = "_determine_score_grade"
            => se_result.score_grade = ThresholdGrade(se_args.score))
    /\ (InOverallCall => se_result.score_grade \in FiveGrades)

InUnitRange(score) == 0 <= score /\ score <= Points(100)

C10_CompatibilityInRange ==
    se_call = "calculate_compatibility_percentage"
        => InUnitRange(se_result.compatibility_percentage)

---------------------------------------------------------------------------
(* Claims about SkillMatcher.match_skills, checked under SpecMatch.        *)

InMatchCall == sm_call = "match_skills"

CallCvSkills ==
    sm_args.cv_skills.technical_skills \o sm_args.cv_skills.soft_skills

CallRequired == sm_args.job_requirements.required_skills

CallPreferred == sm_args.job_requirements.preferred_skills

\* the three tiers of the specification for one candidate: 1.0 on
\* case-insensitive equality, else the larger of 0.9 (shared synonym group)
\* and the similarity ratio (when above 0.8), else nothing
TierScore(cv_skill, required_skill) ==
    IF Lower(cv_skill) = Lower(required_skill) THEN <<1, 1>>
    ELSE LET similarity == Similarity(Lower(cv_skill), Lower(required_skill))
             fuzzy == IF FracGt(similarity, <<4, 5>>) THEN similarity ELSE <<0, 1>>
         IN  IF _are_skill_synonyms(cv_skill, required_skill) /\ FracGe(<<9, 10>>, fuzzy)
             THEN <<9, 10>>
             ELSE fuzzy

\* the highest tier score any candidate of the call attains for a skill
BestTier(required_skill) ==
    IF CallCvSkills = <<>> THEN <<0, 1>>
    ELSE LET top == CHOOSE i \in DOMAIN CallCvSkills : \A j \in DOMAIN CallCvSkills :
                        FracGe(TierScore(CallCvSkills[i], required_skill),
                               TierScore(CallCvSkills[j], required_skill))
         IN  TierScore(CallCvSkills[top], required_skill)

\* the candidates that attain it
TopCandidates(required_skill) ==
    {i \in DOMAIN CallCvSkills :
        FracGe(TierScore(CallCvSkills[i], required_skill), BestTier(required_skill))}

IsMatched(required_skill) ==
    \E i \in DOMAIN sm_result.matched_skills :
        sm_result.matched_skills[i].required_skill = required_skill

MatchedCount(skills) == Cardinality({i \in DOMAIN skills : IsMatched(skills[i])})

\* percent points as a fraction: 70 * required ratio + 30 * preferred ratio,
\* a ratio being matches / length, or the given default for an empty list
RatioScore(preferred_default) ==
    LET rr == IF CallRequired = <<>> THEN <<1, 1>>
              ELSE <<MatchedCount(CallRequired), Len(CallRequired)>>
        pp == IF CallPreferred = <<>> THEN preferred_default
              ELSE <<MatchedCount(CallPreferred), Len(CallPreferred)>>
    IN  <<70 * rr[1] * pp[2] + 30 * pp[1] * rr[2], rr[2] * pp[2]>>

\* score (in thousandths) is the fraction rounded to two decimals
IsRoundedTo2(score, frac) ==
    /\ score % 10 = 0
    /\ score * frac[2] - 1000 * frac[1] <= 5 * frac[2]
    /\ 1000 * frac[1] - score * frac[2] <= 5 * frac[2]

\* C4 as stated: skill_match_score equals 100 * (0.7 * required_ratio
\* + 0.3 * preferred_ratio), each ratio 1.0 for an empty list, so that two
\* empty lists give 100.0.
C4_ScoreWithUnitDefaults ==
    InMatchCall =>
        sm_result.skill_match_score * RatioScore(<<1, 1>>)[2]
            = 1000 * RatioScore(<<1, 1>>)[1]

\* C4 amended: skill_match_score is 100 * (0.7 * required_ratio + 0.3 *
\* preferred_ratio) rounded to two decimals, the required ratio being 1.0
\* and the preferred ratio 0.5 for an empty list; two empty lists give 85.0.
C4_ScoreRoundedWithHalfDefault ==
    InMatchCall =>
        /\ IsRoundedTo2(sm_result.skill_match_score, RatioScore(<<1, 2>>))
        /\ (CallRequired = <<>> /\ CallPreferred = <<>>
                => sm_result.skill_match_score = Points(85))

\* both lists empty against a CV that has skills
C4_Witness ==
    /\ InMatchCall
    /\ CallRequired = <<>>
    /\ CallPreferred = <<>>
    /\ CallCvSkills # <<>>
    /\ sm_result.skill_match_score = Points(85)

\* C5: with no preferred skills the preferred ratio is 0.5, the score being
\* round(100 * (0.7 * required_ratio + 0.15), 2); the scenario (Python,
\* React, SQL against python, react, vue) matches python and react with
\* score 1.0 each, misses vue and scores 61.67.
C5_EmptyPreferredIsHalf ==
    /\ (InMatchCall /\ CallPreferred = <<>>
            => LET rr == IF CallRequired = <<>> THEN <<1, 1>>
                         ELSE <<MatchedCount(CallRequired), Len(CallRequired)>>
               IN  IsRoundedTo2(sm_result.skill_match_score,
                                <<70 * rr[1] + 15 * rr[2], rr[2]>>))
    /\ (InMatchCall /\ sm_args = ScenarioCall
            => /\ sm_result.matched_skills =
                    << [required_skill |-> <<"p", "y", "t", "h", "o", "n">>,
                        matched_skill |-> <<"P", "y", "t", "h", "o", "n">>,
                        match_score |-> 100],
                       [required_skill |-> <<"r", "e", "a", "c", "t">>,
                        matched_skill |-> <<"R", "e", "a", "c", "t">>,
                        match_score |-> 100] >>
               /\ sm_result.missing_skills.required = << <<"v", "u", "e">> >>
               /\ sm_result.skill_match_score = 61670)

\* the scenario has been run
C5_Witness ==
    /\ InMatchCall
    /\ sm_args = ScenarioCall
    /\ Len(sm_result.matched_skills) = 2
    /\ sm_result.skill_match_score = 61670

AllRequirements == Range(CallRequired) \cup Range(CallPreferred)

\* C6: the recorded match of a skill is a candidate that attains the highest
\* tier score among all candidates, and match_score is that maximum rounded
\* to two decimals, whatever the order of the candidates.  (The code keeps
\* a weaker fuzzy match when the synonym's ratio does not exceed it.)
C6_BestTierRecorded ==
    InMatchCall =>
        \A r \in AllRequirements :
            FracGe(BestTier(r), <<4, 5>>) =>
                \E i \in DOMAIN sm_result.matched_skills :
                    LET m == sm_result.matched_skills[i]
                    IN  /\ m.required_skill = r
                        /\ FracGe(TierScore(m.matched_skill, r), BestTier(r))
                        /\ m.match_score = RoundHalfEven(100 * BestTier(r)[1], BestTier(r)[2])

\* C7: a required or preferred skill that shares a synonym group with some
\* CV skill is in matched_skills with match_score >= 0.9.  (The code drops
\* ml against ai, whose similarity ratio is 0.)
C7_SynonymsMatched ==
    InMatchCall =>
        \A r \in AllRequirements :
            (\E i \in DOMAIN CallCvSkills : _are_skill_synonyms(CallCvSkills[i], r))
                => \E i \in DOMAIN sm_result.matched_skills :
                       /\ sm_result.matched_skills[i].required_skill = r
                       /\ sm_result.matched_skills[i].match_score >= 90

\* C8: every required (preferred) skill is in exactly one of matched_skills
\* and missing_skills.required (.preferred), and is missing exactly when no
\* candidate scores >= 0.8 for it.
C8_MatchedXorMissing ==
    InMatchCall =>
        /\ \A r \in Range(CallRequired) :
              /\ IsMatched(r) # (r \in Range(sm_result.missing_skills.required))
              /\ (r \in Range(sm_result.missing_skills.required))
                    = ~FracGe(BestTier(r), <<4, 5>>)
        /\ \A r \in Range(CallPreferred) :
              /\ IsMatched(r) # (r \in Range(sm_result.missing_skills.preferred))
              /\ (r \in Range(sm_result.missing_skills.preferred))
                    = ~FracGe(BestTier(r), <<4, 5>>)

\* C9: when several candidates attain the same best score for a skill the
\* recorded matched_skill is the first of them in the candidate list
\* (technical before soft skills), and in matched_skills the matches of
\* required skills precede those of preferred skills.
C9_FirstOfTiedWins ==
    InMatchCall =>
        /\ \A r \in AllRequirements :
              (FracGe(BestTier(r), <<4, 5>>) /\ Cardinality(TopCandidates(r)) >= 2)
                  => \A i \in DOMAIN sm_result.matched_skills :
                        sm_result.matched_skills[i].required_skill = r
                            => \E c \in TopCandidates(r) :
                                  /\ \A d \in TopCandidates(r) : c <= d
                                  /\ sm_result.matched_skills[i].matched_skill = CallCvSkills[c]
        /\ \E k \in 0..Len(sm_result.matched_skills) :
              /\ \A i \in 1..k :
                    sm_result.matched_skills[i].required_skill \in Range(CallRequired)
              /\ \A i \in (k + 1)..Len(sm_result.matched_skills) :
                    sm_result.matched_skills[i].required_skill \in Range(CallPreferred)

---------------------------------------------------------------------------
(* Claims about ScoringEngine.calculate_compatibility_percentage and       *)
(* SkillMatcher.calculate_job_compatibility.                               *)

InCompatibilityCall == se_call = "calculate_compatibility_percentage"

\* the quality_score a call is made with, 50 when the key is missing
CallQualityScore ==
    IF "text_quality" \in DOMAIN se_args.cv_analysis
          /\ "quality_score" \in DOMAIN se_args.cv_analysis.text_quality
    THEN se_args.cv_analysis.text_quality.quality_score
    ELSE 50

\* the number of sections of more than 50 characters
CallCompleteSections ==
    IF "structured_sections" \in DOMAIN se_args.cv_analysis
    THEN se_args.cv_analysis.structured_sections.long
    ELSE 0

CallBase ==
    IF "overall_compatibility" \in DOMAIN se_args.job_compatibility
    THEN se_args.job_compatibility.overall_compatibility
    ELSE 0

\* base plus the two adjustments of the specification, at most 100
ExpectedAdjusted ==
    LET quality == IF CallQualityScore > 80 THEN 5
                   ELSE IF CallQualityScore < 40 THEN -5 ELSE 0
        completeness == IF CallCompleteSections >= 4 THEN 3
                        ELSE IF CallCompleteSections <= 1 THEN -3 ELSE 0
        sum == CallBase + Points(quality + completeness)
    IN  IF sum > Points(100) THEN Points(100) ELSE sum

MatchBand(value) ==
    IF value >= Points(90) THEN "Excellent Match"
    ELSE IF value >= Points(80) THEN "Very Good Match"
    ELSE IF value >= Points(70) THEN "Good Match"
    ELSE IF value >= Points(60) THEN "Fair Match"
    ELSE "Poor Match"

C11_Scenario ==
    /\ InCompatibilityCall
    /\ CallBase = Points(75)
    /\ CallQualityScore = 85
    /\ CallCompleteSections = 5

\* C11: compatibility_percentage is the base plus the quality adjustment
\* (+5 above 80, -5 below 40) plus the completeness adjustment (+3 from 4
\* complete sections, -3 up to 1), capped at 100; match_level is its band
\* with inclusive lower bounds 90/80/70/60; base 75.0, quality 85 and 5
\* complete sections give 83.0 and Very Good Match.
C11_AdjustmentsAndBands ==
    /\ (InCompatibilityCall
            => /\ se_result.compatibility_percentage = ExpectedAdjusted
               /\ se_result.match_level = MatchBand(ExpectedAdjusted))
    /\ (C11_Scenario
            => /\ se_result.compatibility_percentage = Points(83)
               /\ se_result.match_level = "Very Good Match")

\* the scenario has been run
C11_Witness ==
    /\ C11_Scenario
    /\ se_result.match_level = "Very Good Match"

InJobCall == sm_call = "calculate_job_compatibility"

\* 100 times the 0.5 / 0.3 / 0.2 combination of the three reported parts
ExactCompatibility ==
    50 * sm_result.skill_compatibility
    + 30 * sm_result.experience_compatibility
    + 20 * sm_result.education_compatibility

\* C12: overall_compatibility is 0.5 * skill_compatibility + 0.3 *
\* experience_compatibility + 0.2 * education_compatibility rounded to one
\* decimal; skill_compatibility is the skill_match_score of match_skills on
\* the requirements extracted from the job description; the weights in
\* compatibility_breakdown are 0.5, 0.3 and 0.2.
C12_WeightedCompatibility ==
    InJobCall =>
        /\ sm_result.overall_compatibility % 100 = 0
        /\ 100 * sm_result.overall_compatibility - ExactCompatibility <= 5000
        /\ ExactCompatibility - 100 * sm_result.overall_compatibility <= 5000
        /\ sm_result.skill_compatibility =
              match_skills(sm_args.cv_analysis.skills_analysis,
                           _extract_job_requirements(sm_args.job_description)).skill_match_score
        /\ sm_result.compatibility_breakdown.skills.weight = 50
        /\ sm_result.compatibility_breakdown.experience.weight = 30
        /\ sm_result.compatibility_breakdown.education.weight = 20

\* a description with required skills of which the CV matches some, and an
\* experience requirement the CV misses
C12_Witness ==
    /\ InJobCall
    /\ sm_args.job_description.required_word
    /\ sm_result.skill_compatibility > Points(15)
    /\ sm_result.skill_compatibility < Points(85)
    /\ sm_result.experience_compatibility < Points(75)
    /\ sm_result.overall_compatibility > 0

---------------------------------------------------------------------------
(* Optional input fields.  A call is described by the state of each        *)
(* optional field it reads: the key is missing, its value is None (null),  *)
(* an empty collection, or a filled one.  dict.get(key, default) answers   *)
(* the default for a missing key only, so a null value reaches the code    *)
(* that adds, iterates or measures it, and that code raises; each method   *)
(* logs the exception and raises it again.                                 *)

OptionalStates == {"missing", "null", "empty", "filled"}

\* the entries of a dictionary: the keys of shape that are not missing,
\* with an empty or a sample value (a null entry is never read below)
Entries(shape, empty, filled) ==
    [k \in {f \in DOMAIN shape : shape[f] \in {"empty", "filled"}} |->
        IF shape[k] = "empty" THEN empty[k] ELSE filled[k]]

RaisedResult == [raised |-> "Exception"]

\* match_skills: line 36 adds the two skill lists of the CV, line 37 the two
\* lists of the job, line 79 iterates skill_categories.items()
MatchSkillsRaises(shape) ==
    \/ shape.technical_skills = "null" \/ shape.soft_skills = "null"
    \/ shape.required_skills = "null" \/ shape.preferred_skills = "null"
    \/ shape.skill_categories = "null"

MatchSkillsOptional(shape) ==
    IF MatchSkillsRaises(shape) THEN RaisedResult
    ELSE match_skills(
            Entries([f \in {"technical_skills", "soft_skills"} |-> shape[f]],
                    [technical_skills |-> <<>>, soft_skills |-> <<>>],
                    [technical_skills |-> << <<"P", "y", "t", "h", "o", "n">> >>,
                     soft_skills |-> << <<"v", "u", "e", ".", "j", "s">> >>]),
            Entries([f \in {"required_skills", "preferred_skills"} |-> shape[f]],
                    [required_skills |-> <<>>, preferred_skills |-> <<>>],
                    [required_skills |-> << <<"p", "y", "t", "h", "o", "n">> >>,
                     preferred_skills |-> << <<"v", "u", "e">> >>]))

\* calculate_job_compatibility: match_skills calls cv_skills.get, and the
\* experience and education functions call .get on their dictionaries
JobCompatibilityRaises(shape) ==
    \/ shape.skills_analysis = "null"
    \/ shape.experience_analysis = "null"
    \/ shape.education_analysis = "null"

JobCompatibilityOptional(shape, job_description) ==
    IF JobCompatibilityRaises(shape) THEN {RaisedResult}
    ELSE calculate_job_compatibility(
            Entries(shape,
                    [skills_analysis |-> <<>>, experience_analysis |-> <<>>,
                     education_analysis |-> <<>>],
                    [skills_analysis |-> [technical_skills |-> << <<"P", "y", "t", "h", "o", "n">> >>],
                     experience_analysis |-> [total_years |-> 3],
                     education_analysis |-> [education_level_score |-> 60]]),
            job_description)

\* calculate_overall_score: the component scores skip a falsy analysis, but
\* _calculate_confidence_level calls quality_data.get, structured_sections
\* .values() and contact_info.values()
OverallScoreRaises(shape) ==
    \/ shape.text_quality = "null"
    \/ shape.structured_sections = "null"
    \/ shape.contact_info = "null"

OverallScoreOptional(shape, custom_weights) ==
    IF OverallScoreRaises(shape) THEN {RaisedResult}
    ELSE calculate_overall_score(
            Entries(shape,
                    [skills_analysis |-> <<>>, experience_analysis |-> <<>>,
                     education_analysis |-> <<>>, text_quality |-> <<>>,
                     structured_sections |-> <<>>, contact_info |-> <<>>],
                    [skills_analysis |-> [technical_skills |-> 10, skill_categories |-> 3],
                     experience_analysis |-> [total_years |-> 6, keywords_found |-> 4],
                     education_analysis |-> [education_level_score |-> 80, degrees |-> 1],
                     text_quality |-> [quality_score |-> 70],
                     structured_sections |-> [nonblank |-> 4, long |-> 3],
                     contact_info |-> [filled |-> 3]]),
            <<>>, custom_weights)

\* calculate_compatibility_percentage: line 136 adds to the base,
\* _calculate_compatibility_adjustments calls quality_data.get and
\* structured_sections.values(), the _extract functions slice the lists
CompatibilityRaises(cv_shape, job_shape) ==
    \/ cv_shape.text_quality = "null"
    \/ cv_shape.structured_sections = "null"
    \/ job_shape.overall_compatibility = "null"
    \/ job_shape.strengths = "null"
    \/ job_shape.weaknesses = "null"
    \/ job_shape.recommendations = "null"

CompatibilityOptional(cv_shape, job_shape) ==
    IF CompatibilityRaises(cv_shape, job_shape) THEN {RaisedResult}
    ELSE calculate_compatibility_percentage(
            Entries(cv_shape,
                    [text_quality |-> <<>>, structured_sections |-> <<>>],
                    [text_quality |-> [quality_score |-> 70],
                     structured_sections |-> [nonblank |-> 4, long |-> 3]]),
            Entries([f \in {"overall_compatibility"} |-> job_shape[f]],
                    [overall_compatibility |-> 0],
                    [overall_compatibility |-> Points(75)]))

\* the job descriptions of the calls with optional fields: an empty text,
\* and one that requires python and 3 years of experience
OptionalDescriptionSet ==
    { [mentions |-> {}, required_word |-> FALSE, years |-> <<{}, {}, {}>>],
      [mentions |-> {1}, required_word |-> TRUE, years |-> <<{3}, {}, {}>>] }

\* The calls with optional fields run one at a time.
MatchSkillsWithOptionalFields ==
    /\ SmIdle /\ SeIdle
    /\ \E shape \in [{"technical_skills", "soft_skills", "skill_categories",
                      "required_skills", "preferred_skills"} -> OptionalStates] :
        /\ sm_call' = "match_skills"
        /\ sm_args' = shape
        /\ sm_result' = MatchSkillsOptional(shape)
    /\ UNCHANGED <<se_vars, rest_vars>>

JobCompatibilityWithOptionalFields ==
    /\ SmIdle /\ SeIdle
    /\ \E shape \in [{"skills_analysis", "experience_analysis", "education_analysis"}
                        -> OptionalStates],
          job_description \in OptionalDescriptionSet :
        /\ sm_call' = "calculate_job_compatibility"
        /\ sm_args' = [cv_analysis |-> shape, job_description |-> job_description]
        /\ sm_result' \in JobCompatibilityOptional(shape, job_description)
    /\ UNCHANGED <<se_vars, rest_vars>>

OverallScoreWithOptionalFields ==
    /\ SeIdle /\ SmIdle
    /\ \E shape \in [{"skills_analysis", "experience_analysis", "education_analysis",
                      "text_quality", "structured_sections", "contact_info"}
                        -> OptionalStates] :
        /\ se_call' = "calculate_overall_score"
        /\ se_args' = [cv_analysis |-> shape]
        /\ se_result' \in OverallScoreOptional(shape, <<>>)
    /\ UNCHANGED <<se_self, se_previous>>
    /\ UNCHANGED <<sm_vars, rest_vars>>

CompatibilityWithOptionalFields ==
    /\ SeIdle /\ SmIdle
    /\ \E cv_shape \in [{"text_quality", "structured_sections"} -> OptionalStates],
          job_shape \in [{"overall_compatibility", "strengths", "weaknesses",
                          "recommendations"} -> OptionalStates] :
        /\ se_call' = "calculate_compatibility_percentage"
        /\ se_args' = [cv_analysis |-> cv_shape, job_compatibility |-> job_shape]
        /\ se_result' \in CompatibilityOptional(cv_shape, job_shape)
    /\ UNCHANGED <<se_self, se_previous>>
    /\ UNCHANGED <<sm_vars, rest_vars>>

NextOptional ==
    \/ MatchSkillsWithOptionalFields
    \/ JobCompatibilityWithOptionalFields
    \/ OverallScoreWithOptionalFields
    \/ CompatibilityWithOptionalFields
    \/ SeReturn
    \/ SmReturn

SpecOptional == Init /\ [][NextOptional]_vars

\* C13: match_skills, calculate_job_compatibility, calculate_overall_score
\* and calculate_compatibility_percentage return a normally shaped result
\* and never raise, whatever optional field is missing, empty or null.
\* (A null list or dictionary raises in each of the four.)
C13_NeverRaises ==
    /\ "raised" \notin DOMAIN se_result
    /\ "raised" \notin DOMAIN sm_result

---------------------------------------------------------------------------
(* ScoringEngine: repeated calls of calculate_overall_score on one engine, *)
(* interleaved with other calls.  se_previous remembers one earlier call   *)
(* that has returned: its arguments, the outcome of its float arithmetic   *)
(* and its result; se_previous.pending holds the arguments as the caller   *)
(* passed them and the float outcome of the call in progress.              *)

RepeatCvSet ==
    { cv_analysis \in OverallCvSet :
        /\ cv_analysis.skills_analysis \in
              {<<>>, [technical_skills |-> 10, skill_categories |-> 3,
                      soft_skills |-> MaxSoft, skill_frequency |-> MaxFreq]}
        /\ cv_analysis.experience_analysis \in
              {<<>>, [total_years |-> 2, experience_quality_score |-> 55,
                      keywords_found |-> MaxKeywords]}
        /\ cv_analysis.education_analysis = [education_level_score |-> 60, degrees |-> 1]
        /\ cv_analysis.text_quality = <<>>
        /\ cv_analysis.contact_info = [filled |-> 2] }

RepeatWeightSet ==
    { custom_weights \in CustomWeightSet :
        \/ DOMAIN custom_weights = {}
        \/ custom_weights.skills = 70
        \/ custom_weights.quality = 70 }

\* A variant in which the call stores the weights it used in the engine
\* (sensitivity of C14).
SelfKeepsLastWeights(self, custom_weights) ==
    [self EXCEPT !.default_weights = EffectiveWeights(custom_weights)]

\* The fields of the engine after calculate_overall_score: the method binds
\* the local name weights and reads self.score_ranges; it assigns no field.
SelfAfterOverallScore(self, custom_weights) == self

\* The caller's dictionaries after the call: the method reads them with
\* .get() and builds new dictionaries for its results.
InputsAfterOverallScore(args) == args

RepeatOverallScore ==
    /\ SeIdle
    /\ \E cv_analysis \in RepeatCvSet, custom_weights \in RepeatWeightSet :
        LET args == [cv_analysis |-> cv_analysis, job_requirements |-> <<>>,
                     custom_weights |-> custom_weights]
            repeated == se_previous.called /\ se_previous.args = args
        IN  \E float \in FloatOutcomes(cv_analysis, <<>>, custom_weights) :
                /\ repeated => float = se_previous.float
                /\ se_call' = "calculate_overall_score"
                /\ se_args' = InputsAfterOverallScore(args)
                /\ se_result' = OverallScoreResult(cv_analysis, <<>>, custom_weights, float)
                /\ se_self' = SelfAfterOverallScore(se_self, custom_weights)
                /\ se_previous' = [se_previous EXCEPT
                                     !.pending = [args |-> args, float |-> float]]
    /\ UNCHANGED <<sm_vars, rest_vars>>

\* A call returns; a calculate_overall_score call may be the one remembered.
SeReturnRemembered ==
    /\ ~SeIdle
    /\ se_call' = "idle"
    /\ se_args' = <<>>
    /\ se_result' = <<>>
    /\ \/ /\ se_call = "calculate_overall_score"
          /\ se_previous' = [called |-> TRUE, args |-> se_previous.pending.args,
                             float |-> se_previous.pending.float,
                             result |-> se_result, pending |-> <<>>]
       \/ se_previous' = [se_previous EXCEPT !.pending = <<>>]
    /\ UNCHANGED se_self
    /\ UNCHANGED <<sm_vars, rest_vars>>

NextRepeat ==
    \/ RepeatOverallScore
    \/ DetermineScoreGrade
    \/ CalculateEducationScore
    \/ SeReturnRemembered

SpecRepeat == Init /\ [][NextRepeat]_vars

\* A calculate_overall_score call with the arguments of the remembered call.
RepeatedCall ==
    /\ se_call = "calculate_overall_score"
    /\ se_previous.called
    /\ se_previous.args = se_previous.pending.args

---------------------------------------------------------------------------
\* The keys of skills_data that _calculate_skills_score counts.
SkillCounts == {"technical_skills", "skill_categories", "soft_skills", "skill_frequency"}

\* skills_data with one more entry counted under key.
OneMore(skills_data, key) ==
    [k \in SkillCounts |-> Get(skills_data, k, 0) + (IF k = key THEN 1 ELSE 0)]

InSkillsCall == se_call = "_calculate_skills_score"

(* C15: the score of _calculate_skills_score lies in [0,100], and one more *)
(* technical skill, one more non-empty category, one more soft skill or    *)
(* one more skill mentioned more than twice never lowers it.               *)
C15_SkillsScoreMonotonic ==
    InSkillsCall =>
        /\ 0 <= se_result.score /\ se_result.score <= Points(100)
        /\ \A key \in SkillCounts :
              _calculate_skills_score(OneMore(se_args.skills_data, key)) >= se_result.score

\* A call below every cap, where each count still adds to the score.
C15_Witness ==
    /\ InSkillsCall
    /\ DOMAIN se_args.skills_data # {}
    /\ se_args.skills_data.technical_skills = 3
    /\ se_args.skills_data.skill_frequency = 2
    /\ \A key \in SkillCounts :
          _calculate_skills_score(OneMore(se_args.skills_data, key)) > se_result.score

---------------------------------------------------------------------------
(* POST /batch-analyze: batch_analyze_cvs.                                  *)
(* An upload is named by what happens to it in the loop: validate_file     *)
(* raises ("invalid"), file.read() raises ("unreadable"), creating the     *)
(* database record raises ("unstored"), perform_cv_analysis raises         *)
(* ("analysis_failed"), updating the record or building the response      *)
(* raises ("update_failed"), the handler that records a failure raises     *)
(* itself ("unrecorded"), or nothing raises ("completed").                 *)

MaxFiles == 3          \* uploads in a batch
MaxBatchSize == 50     \* if len(files) > 50

FileFates ==
    {"invalid", "unreadable", "unstored", "analysis_failed", "update_failed",
     "unrecorded", "completed"}

\* The uploads of a request: up to MaxFiles files, or one file over the limit.
BatchFilesSet ==
    UNION {[1..n -> FileFates] : n \in 0..MaxFiles}
        \cup {[i \in 1..(MaxBatchSize + 1) |-> "completed"]}

\* A variant in which a failure while recording a failure is not counted
\* (sensitivity of C16).
LoopBodyUncounted(fate, file_number, tally) ==
    IF fate = "completed"
    THEN [tally EXCEPT !.results = Append(@, [file |-> file_number, status |-> "completed"]),
                       !.completed = @ + 1]
    ELSE IF fate \in {"analysis_failed", "update_failed"}
    THEN [tally EXCEPT !.results = Append(@, [file |-> file_number, status |-> "failed"]),
                       !.failed = @ + 1]
    ELSE IF fate = "unrecorded" THEN tally
    ELSE [tally EXCEPT !.failed = @ + 1]

\* One pass of "for file in files": the counters and the list after it.
LoopBody(fate, file_number, tally) ==
    IF fate \in {"invalid", "unreadable", "unstored"}
    THEN \* except Exception of the outer try: failed += 1; continue
         [tally EXCEPT !.failed = @ + 1]
    ELSE IF fate = "completed"
    THEN [tally EXCEPT !.results = Append(@, [file |-> file_number, status |-> "completed"]),
                       !.completed = @ + 1]
    ELSE IF fate \in {"analysis_failed", "update_failed"}
    THEN \* except Exception of the inner try
         [tally EXCEPT !.results = Append(@, [file |-> file_number, status |-> "failed"]),
                       !.failed = @ + 1]
    ELSE \* the inner handler raises before its failed += 1; the outer one counts
         [tally EXCEPT !.failed = @ + 1]

BatchAnalyzeCvs ==
    /\ batch_pc = "idle"
    /\ analyze_pc = "idle"
    /\ http_status = 0
    /\ \E uploads \in BatchFilesSet :
        /\ files' = uploads
        /\ IF Len(uploads) > MaxBatchSize
           THEN /\ batch_pc' = "raised"
                /\ batch_response' = [status_code |-> 400]
           ELSE /\ batch_pc' = "loop"
                /\ batch_response' = <<>>
    /\ batch_index' = 0
    /\ completed' = 0
    /\ failed' = 0
    /\ results' = <<>>
    /\ UNCHANGED <<se_vars, sm_vars, rj_vars, jm_vars, key_vars, st_vars>>

ProcessFile ==
    /\ batch_pc = "loop"
    /\ batch_index < Len(files)
    /\ LET tally == LoopBody(files[batch_index + 1], batch_index + 1,
                             [completed |-> completed, failed |-> failed,
                              results |-> results])
       IN  /\ completed' = tally.completed
           /\ failed' = tally.failed
           /\ results' = tally.results
    /\ batch_index' = batch_index + 1
    /\ UNCHANGED <<batch_pc, files, batch_response, se_vars, sm_vars, rj_vars, jm_vars, key_vars, st_vars>>

\* After the loop: the usage counters are committed and the response built.
FinishBatch ==
    /\ batch_pc = "loop"
    /\ batch_index = Len(files)
    /\ \E committed \in BOOLEAN :
        IF committed
        THEN /\ batch_pc' = "returned"
             /\ api_key' = [api_key EXCEPT !.total_requests = @ + Len(files),
                                           !.requests_today = @ + Len(files),
                                           !.requests_this_hour = @ + Len(files)]
             /\ batch_response' = [total_files |-> Len(files), completed |-> completed,
                                   failed |-> failed, results |-> results]
        ELSE /\ batch_pc' = "raised"
             /\ api_key' = api_key
             /\ batch_response' = [status_code |-> 500]
    /\ UNCHANGED <<files, batch_index, completed, failed, results, se_vars, sm_vars,
                   rj_vars, jm_vars, analyze_pc, cv_record, pending_usage, http_status, st_vars>>

NextBatch ==
    \/ BatchAnalyzeCvs
    \/ ProcessFile
    \/ FinishBatch

SpecBatch == Init /\ [][NextBatch]_vars

(* C16: in batch_analyze_cvs every file the loop has been through is       *)
(* counted once, as completed or as failed; the batch raises only before   *)
(* the first file (more than 50 uploads) or after the last, never because  *)
(* of a file; the response reports completed + failed = total_files = the  *)
(* number of uploads.                                                      *)
C16_BatchCountsEveryFile ==
    /\ batch_pc = "loop" => completed + failed = batch_index
    /\ batch_pc = "raised" => Len(files) > MaxBatchSize \/ batch_index = Len(files)
    /\ batch_pc = "returned" =>
          /\ batch_index = Len(files)
          /\ batch_response.total_files = Len(files)
          /\ batch_response.completed + batch_response.failed = batch_response.total_files

\* A batch that returns after a failure that could not be recorded, a failed
\* analysis and a file analysed after both.
C16_Witness ==
    /\ batch_pc = "returned"
    /\ files = <<"unrecorded", "analysis_failed", "completed">>
    /\ batch_response.completed = 1
    /\ batch_response.failed = 2
    /\ Len(batch_response.results) = 2

---------------------------------------------------------------------------
(* Rajee.py (customs declaration PDFs): extract_data_fields.               *)
(* A PDF is given by whether pdfplumber opens it, its number of pages,     *)
(* whether the first page yields text and whether that text holds a date.  *)
(* A value of generate_content is named by its kind: "none" (a request     *)
(* error, None), "no_key" (JSON without "candidates"), "empty" (an empty   *)
(* candidates list), "blocked" (a candidate without content),              *)
(* "no_text_part" (a part without text) or "text", with the fields the     *)
(* text names.  Field values are "found" or "".                            *)

MaxPages == 1          \* pages of a PDF (only the first is read)
max_attempts == 2

PdfSet ==
    { pdf \in [opens : BOOLEAN, pages : 0..MaxPages, has_text : BOOLEAN, has_date : BOOLEAN] :
        /\ ~pdf.opens => pdf.pages = 0
        /\ pdf.pages = 0 => ~pdf.has_text
        /\ ~pdf.has_text => ~pdf.has_date }

ResponseFields ==
    {"Box 2: Exporter", "Box 8: Consignee", "Declarant's Sequence Number",
     "Box 22: Currency & Total Amount Invoiced"}

ResponseSet ==
    [kind : {"none", "no_key", "empty", "blocked", "no_text_part"}, fields : {{}}]
        \cup [kind : {"text"}, fields : SUBSET ResponseFields]

\* A variant that accepts any response that is not None (sensitivity of C17).
IsResponse(r) == r.kind # "none"

\* response and "candidates" in response and len(response['candidates']) > 0
HasCandidates(r) == r.kind \in {"blocked", "no_text_part", "text"}

\* The keys extract_data_fields always sets after parsing the response.
DerivedFields ==
    {"Declarant Sequence Year", "Declarant Sequence Identifier",
     "Customs Reference Type", "Customs Reference Number", "Customs Reference Date",
     "Currency", "Total Amount Invoiced"}

\* common_data as returned: the fields parsed from the response text, with
\* the sequence number popped and split, and the derived fields.
CommonData(r, pdf) ==
    LET parsed == IF HasCandidates(r) THEN r.fields ELSE {}
        found(b) == IF b THEN "found" ELSE ""
    IN  [key \in (parsed \ {"Declarant's Sequence Number"}) \cup DerivedFields |->
            IF key \in {"Declarant Sequence Year", "Declarant Sequence Identifier"}
            THEN found("Declarant's Sequence Number" \in parsed)
            ELSE IF key \in {"Customs Reference Type", "Customs Reference Number"}
            THEN ""
            ELSE IF key = "Customs Reference Date" THEN found(pdf.has_date)
            ELSE IF key \in {"Currency", "Total Amount Invoiced"}
            THEN found("Box 22: Currency & Total Amount Invoiced" \in parsed)
            ELSE "found"]

ExtractDataFields ==
    /\ rj_pc = "idle"
    /\ \E pdf \in PdfSet :
        /\ rj_pdf' = pdf
        /\ IF ~pdf.opens
           THEN /\ rj_pc' = "returned"
                /\ rj_result' = [error |-> "Error extracting page from PDF"]
           ELSE IF pdf.pages = 0
           THEN /\ rj_pc' = "returned"
                /\ rj_result' = [error |-> "PDF file contains no pages."]
           ELSE IF ~pdf.has_text
           THEN /\ rj_pc' = "returned"
                /\ rj_result' = [error |-> "No text could be extracted from the first page"]
           ELSE /\ rj_pc' = "loop"
                /\ rj_result' = <<>>
    /\ attempts' = 0
    /\ response' = [kind |-> "none", fields |-> {}]
    /\ api_calls' = 0
    /\ sleep_seconds' = 0
    /\ UNCHANGED <<se_vars, sm_vars, api_vars, jm_vars, key_vars, st_vars>>

\* One pass of "while attempts < max_attempts".
AttemptGeneration ==
    /\ rj_pc = "loop"
    /\ attempts < max_attempts
    /\ \E r \in ResponseSet :
        /\ response' = r
        /\ api_calls' = api_calls + 1
        /\ IF HasCandidates(r)
           THEN /\ rj_pc' = "parse"
                /\ UNCHANGED <<attempts, sleep_seconds>>
           ELSE /\ attempts' = attempts + 1
                /\ sleep_seconds' = sleep_seconds + 1
                /\ rj_pc' = IF attempts + 1 < max_attempts THEN "loop" ELSE "parse"
    /\ UNCHANGED <<rj_pdf, rj_result, se_vars, sm_vars, api_vars, jm_vars, key_vars, st_vars>>

\* After the loop: the response is parsed and common_data returned; a
\* candidate without content raises KeyError out of the function.
ParseResponse ==
    /\ rj_pc = "parse"
    /\ IF response.kind = "blocked"
       THEN /\ rj_pc' = "raised"
            /\ rj_result' = <<>>
       ELSE /\ rj_pc' = "returned"
            /\ rj_result' = CommonData(response, rj_pdf)
    /\ UNCHANGED <<rj_pdf, attempts, response, api_calls, sleep_seconds,
                   se_vars, sm_vars, api_vars, jm_vars, key_vars, st_vars>>

NextExtract ==
    \/ ExtractDataFields
    \/ AttemptGeneration
    \/ ParseResponse

SpecExtract == Init /\ [][NextExtract]_vars

\* Each step of the function is taken once it can be: the function runs on.
SpecExtractLive == SpecExtract /\ WF_vars(NextExtract)

---------------------------------------------------------------------------
(* ml_models/job_matcher.py: JobMatcher.                                   *)
(* Years are counted in half years, scores in thousandths of a point.  A   *)
(* job description is given by whether it is empty and by the keywords     *)
(* _extract_keywords_from_job_description finds in it.  Its pattern        *)
(* r'\\b[a-zA-Z]{3,}\\b' matches a word only between two literal "\b" and   *)
(* returns it with them, so a keyword is such a marked word that occurs    *)
(* more than twice, and an ordinary text has none.                         *)

MaxCvHalfYears == 24         \* total_years of a CV (the bonus is capped at 10 years of excess)
MaxMinimumExperience == 8    \* minimum_experience in years (the penalty is floored at 6 missing)

KeywordUniverse == {"\\bdevelop\\b", "\\bdesign\\b", "\\bsystem\\b"}

\* The sum of a few float products, rounded: the float lies within a
\* thousandth of the exact value, on either side.
FloatRound(exact, q) == UNION {Round(exact + error, q) : error \in {-1, 0, 1}}

_calculate_domain_relevance(experience_data, job_description) ==
    LET experience_keywords == Get(experience_data, "keywords_found", {})
        job_keywords == job_description.keywords
    IN  IF ~job_description.text THEN Points(50)
        ELSE IF job_keywords = {} \/ experience_keywords = {} THEN Points(50)
        ELSE Min(Points(100),
                 (Cardinality(experience_keywords \cap job_keywords) * Points(100))
                    \div Cardinality(experience_keywords \cup job_keywords))

\* A variant without the floor of 20 under the penalty (sensitivity of C19).
YearsScoreNoFloor(cv_years, required_years) ==
    IF required_years = 0 THEN Points(80)
    ELSE IF cv_years >= required_years
    THEN Points(80) + Min(Points(20), (cv_years - required_years) * 1000)
    ELSE Points(80) - (required_years - cv_years) * 5000

\* years_score of _calculate_experience_match; one half year of excess is
\* 1 point of bonus, one half year of deficit 5 points of penalty.
YearsScore(cv_years, required_years) ==
    IF required_years = 0 THEN Points(80)
    ELSE IF cv_years >= required_years
    THEN Points(80) + Min(Points(20), (cv_years - required_years) * 1000)
    ELSE Max(Points(20), Points(80) - (required_years - cv_years) * 5000)

_categorize_experience_level(years) ==
    IF years < 2 THEN "Entry Level"
    ELSE IF years < 6 THEN "Junior"
    ELSE IF years < 14 THEN "Mid-Level"
    ELSE IF years < 24 THEN "Senior"
    ELSE "Expert"

\* The results _calculate_experience_match can return.
_calculate_experience_match(cv_data, job_requirements) ==
    LET experience_data == Get(cv_data, "experience_analysis", <<>>)
        cv_years == Get(experience_data, "total_years", 0)
        required_years == 2 * Get(job_requirements, "minimum_experience", 0)
        years_score == YearsScore(cv_years, required_years)
        experience_quality == Get(experience_data, "experience_quality_score", 50)
        domain_relevance == _calculate_domain_relevance(
                                experience_data,
                                Get(job_requirements, "job_description",
                                    [text |-> FALSE, keywords |-> {}]))
        experience_score == years_score \div 2 + experience_quality * 300
                            + domain_relevance \div 5
    IN  { [match_score |-> match_score,
           years_match |-> [cv_years |-> cv_years,
                            required_years |-> required_years,
                            meets_requirement |-> cv_years >= required_years,
                            score |-> years_score],
           quality_score |-> Points(experience_quality),
           domain_relevance |-> CHOOSE v \in Round(domain_relevance, 100) : TRUE,
           experience_level |-> _categorize_experience_level(cv_years)]
          : match_score \in FloatRound(experience_score, 100) }

JobDescriptions ==
    {[text |-> FALSE, keywords |-> {}]}
        \cup [text : {TRUE}, keywords : SUBSET KeywordUniverse]

ExperienceCvSet ==
    {<<>>, [experience_analysis |-> <<>>]}
        \cup [experience_analysis :
                [total_years : 0..MaxCvHalfYears,
                 experience_quality_score : {45, MaxQualityScore},
                 keywords_found : SUBSET KeywordUniverse]]

ExperienceRequirementsSet ==
    {<<>>} \cup [minimum_experience : 0..MaxMinimumExperience,
                 job_description : JobDescriptions]

(* calculate_job_match_score with fields that are missing, None, empty or   *)
(* filled.  shape gives the state of cv_data, of its analyses and of the    *)
(* entries of job_requirements; a filled field holds a sample value:        *)
(* technical skills Python and JS with the soft skill Communication, 3      *)
(* years at quality 45, education level 80 with an MSc, two languages,      *)
(* text quality 70; required skills python and sql, preferred skill js, a   *)
(* minimum of 5 years, the required education msc.                          *)

\* _calculate_skill_match: cv_data.get and cv_skills.get, and the loops over
\* the two lists of the job, raise on None; the handler returns 0.0.
_calculate_skill_match(shape) ==
    IF \/ shape.cv_data = "null" \/ shape.skills_analysis = "null"
       \/ shape.required_skills = "null"
    THEN [match_score |-> 0, failed |-> TRUE]
    ELSE LET has_skills == shape.skills_analysis = "filled"
             required_score == IF shape.required_skills \in {"missing", "empty"} THEN 100
                               ELSE IF has_skills THEN 50 ELSE 0
             preferred_score == IF shape.preferred_skills = "missing" THEN 100
                                ELSE IF has_skills THEN 100 ELSE 0
         IN  [match_score |-> required_score * 700 + preferred_score * 300,
              failed |-> FALSE]

\* _calculate_experience_match: cv_years >= None raises as well.
ExperienceMatchOptional(shape) ==
    IF \/ shape.cv_data = "null" \/ shape.experience_analysis = "null"
       \/ shape.minimum_experience = "null"
    THEN {[match_score |-> 0, failed |-> TRUE]}
    ELSE { [match_score |-> r.match_score, failed |-> FALSE] :
             r \in _calculate_experience_match(
                      Entries([experience_analysis |-> shape.experience_analysis],
                              [experience_analysis |-> <<>>],
                              [experience_analysis |->
                                  [total_years |-> 6, experience_quality_score |-> 45,
                                   keywords_found |-> {}]]),
                      Entries([minimum_experience |-> shape.minimum_experience],
                              [minimum_experience |-> 0],
                              [minimum_experience |-> 5])) }

\* _calculate_education_match: None for education_requirements is falsy and
\* counts as no requirement.
_calculate_education_match(shape) ==
    IF shape.cv_data = "null" \/ shape.education_analysis = "null"
    THEN [match_score |-> 0, failed |-> TRUE]
    ELSE LET has_education == shape.education_analysis = "filled"
             base_score == IF has_education THEN 80 ELSE 0
             degree_match_score == IF shape.education_requirements \in {"missing", "null"}
                                   THEN 100
                                   ELSE IF has_education THEN 100 ELSE 0
         IN  [match_score |-> base_score * 700 + degree_match_score * 300,
              failed |-> FALSE]

\* _calculate_cultural_match: its handler returns 50.0.
_calculate_cultural_match(shape) ==
    IF \/ shape.cv_data = "null" \/ shape.skills_analysis = "null"
       \/ shape.text_quality = "null"
    THEN [match_score |-> Points(50), failed |-> TRUE]
    ELSE LET soft_skills_score == IF shape.skills_analysis = "filled" THEN 25 ELSE 0
             language_score == IF shape.language_analysis = "filled" THEN 60 ELSE 70
             communication_score == IF shape.text_quality = "filled" THEN 70 ELSE 50
         IN  [match_score |-> soft_skills_score * 400 + language_score * 300
                              + communication_score * 300,
              failed |-> FALSE]

_empty_match_results ==
    [overall_match_score |-> 0,
     skill_match |-> [match_score |-> 0],
     experience_match |-> [match_score |-> 0],
     education_match |-> [match_score |-> 0],
     cultural_match |-> [match_score |-> 0]]

\* A variant whose breakdown reads the keys the results are stored under
\* (sensitivity of C20).
BreakdownKeysAsStored ==
    [skills |-> "skill_match", experience |-> "experience_match",
     education |-> "education_match", cultural |-> "cultural_match"]

\* f"{component}_match" for the components of weights, which match_breakdown
\* looks up in match_results.
BreakdownKeys ==
    [skills |-> "skills_match", experience |-> "experience_match",
     education |-> "education_match", cultural |-> "cultural_match"]

\* The results calculate_job_match_score can return.  Every component has
\* its own handler and always returns a match_score (failed marks a component
\* whose handler ran).  match_breakdown then looks up the key of every
\* component of weights in match_results; a missing key raises KeyError, and
\* the handler of the method returns _empty_match_results().  The lists
\* strengths, gaps and recommendations are derived from the entries below.
calculate_job_match_score(shape) ==
    LET skill_match == _calculate_skill_match(shape)
        education_match == _calculate_education_match(shape)
        cultural_match == _calculate_cultural_match(shape)
        match_results ==
            UNION { { [overall_match_score |-> overall,
                       skill_match |-> skill_match,
                       experience_match |-> experience_match,
                       education_match |-> education_match,
                       cultural_match |-> cultural_match]
                      : overall \in FloatRound((skill_match.match_score * 45
                                                + experience_match.match_score * 25
                                                + education_match.match_score * 15
                                                + cultural_match.match_score * 15) \div 100,
                                               100) }
                    : experience_match \in ExperienceMatchOptional(shape) }
    IN  { IF \A component \in DOMAIN BreakdownKeys :
                BreakdownKeys[component] \in DOMAIN results_so_far
          THEN results_so_far
          ELSE _empty_match_results
          : results_so_far \in match_results }

JobMatchShapes ==
    { shape \in [cv_data : {"null", "filled"},
                 skills_analysis : OptionalStates,
                 experience_analysis : OptionalStates,
                 education_analysis : OptionalStates,
                 language_analysis : {"missing", "filled"},
                 text_quality : {"missing", "null", "filled"},
                 required_skills : OptionalStates,
                 preferred_skills : {"missing", "filled"},
                 minimum_experience : {"missing", "null", "filled"},
                 education_requirements : {"missing", "null", "filled"}] :
        shape.cv_data = "null" =>
            \A f \in {"skills_analysis", "experience_analysis", "education_analysis",
                      "language_analysis", "text_quality"} : shape[f] = "missing" }

CalculateJobMatchScore ==
    /\ jm_call = "idle"
    /\ \E shape \in JobMatchShapes :
        /\ jm_call' = "calculate_job_match_score"
        /\ jm_args' = shape
        /\ jm_result' \in calculate_job_match_score(shape)
    /\ UNCHANGED <<se_vars, sm_vars, api_vars, rj_vars, key_vars, st_vars>>

JmIdle == jm_call = "idle"

CalculateExperienceMatch ==
    /\ JmIdle
    /\ \E cv_data \in ExperienceCvSet, job_requirements \in ExperienceRequirementsSet :
        /\ jm_call' = "_calculate_experience_match"
        /\ jm_args' = [cv_data |-> cv_data, job_requirements |-> job_requirements]
        /\ jm_result' \in _calculate_experience_match(cv_data, job_requirements)
    /\ UNCHANGED <<se_vars, sm_vars, api_vars, rj_vars, key_vars, st_vars>>

JmReturn ==
    /\ ~JmIdle
    /\ jm_call' = "idle"
    /\ jm_args' = <<>>
    /\ jm_result' = <<>>
    /\ UNCHANGED <<se_vars, sm_vars, api_vars, rj_vars, key_vars, st_vars>>

NextJobMatcher ==
    \/ CalculateExperienceMatch
    \/ CalculateJobMatchScore
    \/ JmReturn

SpecJobMatcher == Init /\ [][NextJobMatcher]_vars

---------------------------------------------------------------------------
\* The last response holds a non-empty candidates list.
NonEmptyCandidates == response.kind \in {"blocked", "no_text_part", "text"}

\* The function is past its loop.
AfterLoop == rj_pc \in {"parse", "returned", "raised"} /\ rj_pdf.has_text

C17_Counts ==
    /\ api_calls <= max_attempts
    /\ sleep_seconds = attempts
    /\ rj_pc = "loop" =>
          /\ api_calls = attempts
          /\ api_calls > 0 => ~NonEmptyCandidates
    /\ AfterLoop =>
          /\ api_calls >= 1
          /\ NonEmptyCandidates => api_calls = attempts + 1
          /\ ~NonEmptyCandidates => api_calls = max_attempts /\ attempts = max_attempts
    /\ (rj_pc = "returned" /\ ~rj_pdf.has_text) => api_calls = 0

---------------------------------------------------------------------------
\* The extraction of the file failed: no page, no text, or no candidates
\* from any attempt.
ExtractionFailed ==
    \/ ~rj_pdf.opens
    \/ rj_pdf.pages = 0
    \/ ~rj_pdf.has_text
    \/ ~NonEmptyCandidates

(* C18: when the extraction of a file fails, the dictionary returned by    *)
(* extract_data_fields has the key "error".                                *)
C18_FailureHasErrorKey ==
    (rj_pc = "returned" /\ ExtractionFailed) => "error" \in DOMAIN rj_result

---------------------------------------------------------------------------
InExperienceMatch == jm_call = "_calculate_experience_match"

\* The arguments of the call as the method reads them (years in half years).
CallCvYears ==
    Get(Get(jm_args.cv_data, "experience_analysis", <<>>), "total_years", 0)

CallRequiredYears == 2 * Get(jm_args.job_requirements, "minimum_experience", 0)

CallQuality ==
    Get(Get(jm_args.cv_data, "experience_analysis", <<>>), "experience_quality_score", 50)

CallDomainRelevance ==
    _calculate_domain_relevance(
        Get(jm_args.cv_data, "experience_analysis", <<>>),
        Get(jm_args.job_requirements, "job_description", [text |-> FALSE, keywords |-> {}]))

\* years_score as the claim gives it: 2 points per year of excess up to 20,
\* 10 points per missing year down to 20.
StatedYearsScore ==
    IF CallRequiredYears = 0 THEN Points(80)
    ELSE IF CallCvYears >= CallRequiredYears
    THEN Points(80) + Min(Points(20), 2 * ((CallCvYears - CallRequiredYears) * 500))
    ELSE Max(Points(20), Points(80) - 10 * ((CallRequiredYears - CallCvYears) * 500))

(* C19: _calculate_experience_match returns match_score = round(0.5 *      *)
(* years_score + 0.3 * experience_quality_score + 0.2 * domain_relevance,  *)
(* 1) with years_score 80 without a requirement, 80 + min(20, 2 * excess)  *)
(* when it is met and max(20, 80 - 10 * missing) otherwise; years_score    *)
(* lies in [20,100].                                                       *)
C19_ExperienceMatchScore ==
    InExperienceMatch =>
        /\ jm_result.years_match.score = StatedYearsScore
        /\ Points(20) <= jm_result.years_match.score
        /\ jm_result.years_match.score <= Points(100)
        /\ \E drift \in {-1, 0, 1} :
              jm_result.match_score \in
                  Round((5 * StatedYearsScore + 3000 * CallQuality
                         + 2 * CallDomainRelevance) \div 10 + drift, 100)

\* A call 7 years short of the requirement: 80 - 70 is floored at 20.
C19_Witness ==
    /\ InExperienceMatch
    /\ CallRequiredYears - CallCvYears = 14
    /\ jm_result.years_match.score = Points(20)
    /\ CallDomainRelevance \notin {0, Points(50), Points(100)}

---------------------------------------------------------------------------
InJobMatchCall == jm_call = "calculate_job_match_score"

\* A step inside the call failed: the handler of a component ran.
InternalStepFailed ==
    \/ _calculate_skill_match(jm_args).failed
    \/ \E r \in ExperienceMatchOptional(jm_args) : r.failed
    \/ _calculate_education_match(jm_args).failed
    \/ _calculate_cultural_match(jm_args).failed

MaxSkillList == 2

\* str.upper() of one character: the sharp s has no upper-case character and
\* becomes two letters
UpperChar(c) ==
    IF c = "ß" THEN <<"S", "S">>
    ELSE IF c \in DOMAIN UpperMap THEN <<UpperMap[c]>> ELSE <<c>>

RECURSIVE Upper(_)
\* str.upper()
Upper(str) == IF str = <<>> THEN <<>> ELSE UpperChar(Head(str)) \o Upper(Tail(str))

RECURSIVE LStrip(_)
LStrip(str) == IF str # <<>> /\ Head(str) = " " THEN LStrip(Tail(str)) ELSE str

RECURSIVE RStrip(_)
RStrip(str) ==
    IF str # <<>> /\ str[Len(str)] = " " THEN RStrip(SubSeq(str, 1, Len(str) - 1)) ELSE str

\* str.strip()
Strip(str) == RStrip(LStrip(str))

\* a in b of two strings
In(a, b) == \E i \in 1..(Len(b) - Len(a) + 1) : SubSeq(b, i, i + Len(a) - 1) = a

\* normalizations of _normalize_skill
normalizations ==
    (<<"j", "s">> :> <<"j", "a", "v", "a", "s", "c", "r", "i", "p", "t">>) @@
    (<<"t", "s">> :> <<"t", "y", "p", "e", "s", "c", "r", "i", "p", "t">>) @@
    (<<"p", "y">> :> <<"p", "y", "t", "h", "o", "n">>) @@
    (<<"r", "e", "a", "c", "t", "j", "s">> :> <<"r", "e", "a", "c", "t">>) @@
    (<<"r", "e", "a", "c", "t", ".", "j", "s">> :> <<"r", "e", "a", "c", "t">>) @@
    (<<"v", "u", "e", "j", "s">> :> <<"v", "u", "e">>) @@
    (<<"v", "u", "e", ".", "j", "s">> :> <<"v", "u", "e">>) @@
    (<<"n", "o", "d", "e", "j", "s">> :> <<"n", "o", "d", "e", ".", "j", "s">>) @@
    (<<"n", "o", "d", "e">> :> <<"n", "o", "d", "e", ".", "j", "s">>) @@
    (<<"p", "o", "s", "t", "g", "r", "e", "s", "q", "l">> :> <<"p", "o", "s", "t", "g", "r", "e", "s">>) @@
    (<<"m", "o", "n", "g", "o">> :> <<"m", "o", "n", "g", "o", "d", "b">>)

_normalize_skill(skill) ==
    LET skill_lower == Strip(Lower(skill))
    IN  IF skill_lower \in DOMAIN normalizations THEN normalizations[skill_lower]
        ELSE skill_lower

SkillsMatchAnyLength(cv_skill, required_skill) ==
    \/ cv_skill = required_skill
    \/ In(required_skill, cv_skill) \/ In(cv_skill, required_skill)

\* the test of the inner loop of _find_skill_matches
SkillsMatch(cv_skill, required_skill) ==
    \/ cv_skill = required_skill
    \/ /\ In(required_skill, cv_skill) \/ In(cv_skill, required_skill)
       /\ Len(cv_skill) > 2

RECURSIVE FindFrom(_, _, _)
\* the outer loop of _find_skill_matches from the i-th required skill on: the
\* inner loop appends the required skill at the first CV skill that matches
FindFrom(cv_skills, required_skills, i) ==
    IF i > Len(required_skills) THEN <<>>
    ELSE (IF \E j \in DOMAIN cv_skills : SkillsMatch(cv_skills[j], required_skills[i])
          THEN <<required_skills[i]>> ELSE <<>>)
         \o FindFrom(cv_skills, required_skills, i + 1)

_find_skill_matches(cv_skills, required_skills) == FindFrom(cv_skills, required_skills, 1)

\* [f(x) for x in l]
MapList(f(_), l) == [i \in DOMAIN l |-> f(l[i])]

RECURSIVE FilterList(_, _)
\* [x for x in l if test(x)]
FilterList(test(_), l) ==
    IF l = <<>> THEN <<>>
    ELSE (IF test(Head(l)) THEN <<Head(l)>> ELSE <<>>) \o FilterList(test, Tail(l))

\* the lists of the result of _calculate_skill_match for a CV data with a
\* skills analysis and job requirements with both lists of skills
SkillMatchLists(all_cv_skills, required_skills, preferred_skills) ==
    LET cv_skills_normalized == MapList(_normalize_skill, all_cv_skills)
        required_normalized == MapList(_normalize_skill, required_skills)
        preferred_normalized == MapList(_normalize_skill, preferred_skills)
        required_matches == _find_skill_matches(cv_skills_normalized, required_normalized)
        preferred_matches == _find_skill_matches(cv_skills_normalized, preferred_normalized)
        MissingRequired(skill) == _normalize_skill(skill) \notin Range(required_matches)
        MissingPreferred(skill) == _normalize_skill(skill) \notin Range(preferred_matches)
        Extra(skill) ==
            _normalize_skill(skill) \notin Range(required_normalized \o preferred_normalized)
    IN  [required_matches |-> required_matches,
         preferred_matches |-> preferred_matches,
         missing_required |-> FilterList(MissingRequired, required_skills),
         missing_preferred |-> FilterList(MissingPreferred, preferred_skills),
         extra_skills |-> FilterList(Extra, all_cv_skills)]

\* skill names as they are written in CVs and job requirements
SkillNames ==
    { <<"J", "S">>,
      <<"j", "s">>,
      <<" ", "J", "s", " ">>,
      <<"R", "e", "a", "c", "t", "J", "S">>,
      <<"P", "o", "s", "t", "g", "r", "e", "S", "Q", "L">>,
      <<"p", "o", "s", "t", "g", "r", "e", "s">>,
      <<"J", "a", "v", "a">>,
      <<"j", "a", "v", "a", "s", "c", "r", "i", "p", "t">>,
      <<"C">>,
      <<"G", "o">>,
      <<"S", "Q", "L">>,
      <<"M", "a", "ß">>,
      <<"M", "A", "S", "S">>,
      <<>> }

\* the keys of the table in upper, lower and mixed case
AliasNames ==
    UNION {{k, Upper(k), Title(k)} : k \in DOMAIN normalizations}

SkillLists == UNION {[1..k -> SkillNames] : k \in 0..MaxSkillList}

PreferredLists == {<<>>, << <<"S", "Q", "L">> >>, << <<"J", "S">> >>}

NormalizeSkill ==
    /\ JmIdle
    /\ \E skill \in SkillNames \cup AliasNames :
        /\ jm_call' = "_normalize_skill"
        /\ jm_args' = [skill |-> skill]
        /\ jm_result' = [normalized |-> _normalize_skill(skill)]
    /\ UNCHANGED <<se_vars, sm_vars, api_vars, rj_vars, key_vars, st_vars>>

FindSkillMatches ==
    /\ JmIdle
    /\ \E cv_skills \in SkillLists, required_skills \in SkillLists :
        /\ jm_call' = "_find_skill_matches"
        /\ jm_args' = [cv_skills |-> cv_skills, required_skills |-> required_skills]
        /\ jm_result' = [matches |-> _find_skill_matches(cv_skills, required_skills)]
    /\ UNCHANGED <<se_vars, sm_vars, api_vars, rj_vars, key_vars, st_vars>>

CalculateSkillMatch ==
    /\ JmIdle
    /\ \E all_cv_skills \in SkillLists, required_skills \in SkillLists,
          preferred_skills \in PreferredLists :
        /\ jm_call' = "_calculate_skill_match"
        /\ jm_args' = [all_cv_skills |-> all_cv_skills,
                       required_skills |-> required_skills,
                       preferred_skills |-> preferred_skills]
        /\ jm_result' = SkillMatchLists(all_cv_skills, required_skills, preferred_skills)
    /\ UNCHANGED <<se_vars, sm_vars, api_vars, rj_vars, key_vars, st_vars>>

NextSkills ==
    \/ NormalizeSkill
    \/ FindSkillMatches
    \/ CalculateSkillMatch
    \/ JmReturn

SpecSkills == Init /\ [][NextSkills]_vars

\* the condition on one required skill: some CV skill equals it, or has more
\* than two characters and one of the two contains the other
HasMatchingCvSkill(cv_skills, required_skill) ==
    \E j \in DOMAIN cv_skills :
        \/ cv_skills[j] = required_skill
        \/ /\ Len(cv_skills[j]) > 2
           /\ In(required_skill, cv_skills[j]) \/ In(cv_skills[j], required_skill)

\* C21: _find_skill_matches returns exactly the required skills for which some
\* CV skill equals them or has more than two characters and contains them or
\* is contained in them, in the order of the required list; in the result of
\* _calculate_skill_match every required skill is in exactly one of
\* required_matches (normalized) and missing_required.
C21_MatchesExactlyAndPartition ==
    /\ jm_call = "_find_skill_matches" =>
        LET Matched(skill) == HasMatchingCvSkill(jm_args.cv_skills, skill)
        IN  jm_result.matches = FilterList(Matched, jm_args.required_skills)
    /\ jm_call = "_calculate_skill_match" =>
        LET required_skills == jm_args.required_skills
            cv_normalized == MapList(_normalize_skill, jm_args.all_cv_skills)
            Reported(skill) == HasMatchingCvSkill(cv_normalized, _normalize_skill(skill))
        IN  /\ \A i \in DOMAIN required_skills :
                /\ Reported(required_skills[i]) <=>
                    _normalize_skill(required_skills[i]) \in Range(jm_result.required_matches)
                /\ Reported(required_skills[i]) <=>
                    required_skills[i] \notin Range(jm_result.missing_required)
            /\ Len(jm_result.required_matches) + Len(jm_result.missing_required)
                = Len(required_skills)
            /\ \A j \in DOMAIN jm_result.required_matches :
                \E i \in DOMAIN required_skills :
                    jm_result.required_matches[j] = _normalize_skill(required_skills[i])

\* a skill match where a CV skill of two characters is contained in a required
\* skill and does not match it, one required skill matched under its alias
\* and one missing
C21_Witness ==
    /\ jm_call = "_calculate_skill_match"
    /\ jm_args.all_cv_skills = << <<"G", "o">>, <<"J", "S">> >>
    /\ jm_args.required_skills = << <<"j", "a", "v", "a", "s", "c", "r", "i", "p", "t">>,
                                    <<"M", "A", "S", "S">> >>
    /\ jm_result.required_matches = << <<"j", "a", "v", "a", "s", "c", "r", "i", "p", "t">> >>
    /\ jm_result.missing_required = << <<"M", "A", "S", "S">> >>

\* C22: _normalize_skill gives the same result for a skill and for the skill
\* in upper case, normalizing a normalized skill changes nothing, and every
\* alias of the table is mapped to its canonical form.
C22_NormalizeCaseInsensitiveIdempotent ==
    jm_call = "_normalize_skill" =>
        /\ jm_result.normalized = _normalize_skill(Upper(jm_args.skill))
        /\ _normalize_skill(jm_result.normalized) = jm_result.normalized
        /\ \A k \in DOMAIN normalizations :
            jm_args.skill \in {k, Upper(k), Title(k)} =>
                jm_result.normalized = normalizations[k]

\* the level and the number of degrees of an education analysis, an empty
\* analysis having none of either
EducationLevelOf(education_data) == Get(education_data, "education_level_score", 0)

EducationDegreesOf(education_data) == Get(education_data, "degrees", 0)

\* C23: for every education analysis, the empty one included with level 0 and
\* no degrees, _calculate_education_score returns
\* min(100, education_level_score + min(10, 3 * degrees)), and the score does
\* not decrease when the level or the number of degrees grows.
C23_EducationScoreFormulaMonotonic ==
    se_call = "_calculate_education_score" =>
        LET education_data == se_args.education_data
        IN  /\ se_result.score =
                Points(Min(100, EducationLevelOf(education_data)
                                + Min(10, 3 * EducationDegreesOf(education_data))))
            /\ \A more \in EducationDataSet :
                /\ EducationLevelOf(more) >= EducationLevelOf(education_data)
                /\ EducationDegreesOf(more) >= EducationDegreesOf(education_data)
                => _calculate_education_score(more) >= se_result.score

\* the entries of a list of the result that name a component
EntriesOf(list, name) == {list[i] : i \in {j \in DOMAIN list : list[j][1] = name \/ list[j][2] = name}}

\* C24 as stated: a component has an entry in strengths exactly when its score
\* is at least 80, a "development needed" entry exactly when it is below 60,
\* an "enhancement opportunity" entry exactly when it is in [60,70), and no
\* entry in either list when it is in [70,80).
C24_StrengthsFromEightyOnly ==
    se_call = "calculate_overall_score" =>
        \A i \in DOMAIN Components :
            LET component == Components[i]
                score == se_result.component_scores[component]
                strengths == EntriesOf(se_result.strengths, component)
                areas == EntriesOf(se_result.improvement_areas, ComponentTitle[component])
            IN  /\ strengths # {} <=> score >= Points(80)
                /\ <<ComponentTitle[component], "development needed">> \in areas
                    <=> score < Points(60)
                /\ <<ComponentTitle[component], "enhancement opportunity">> \in areas
                    <=> (score >= Points(60) /\ score < Points(70))
                /\ (score >= Points(70) /\ score < Points(80))
                    => (strengths = {} /\ areas = {})

\* C24 (amended): a component has an entry in strengths exactly when its score
\* is at least 70 ("Excellent ... profile" from 80, "Strong ... background" in
\* [70,80)), a "development needed" entry in improvement_areas exactly when it
\* is below 60 and an "enhancement opportunity" entry exactly when it is in
\* [60,70); no component has more than one entry in a list or entries in both.
C24_StrengthsAndImprovementAreas ==
    se_call = "calculate_overall_score" =>
        \A i \in DOMAIN Components :
            LET component == Components[i]
                score == se_result.component_scores[component]
                strengths == EntriesOf(se_result.strengths, component)
                areas == EntriesOf(se_result.improvement_areas, ComponentTitle[component])
            IN  /\ strengths = (IF score >= Points(80)
                                THEN {<<"Excellent", component, "profile">>}
                                ELSE IF score >= Points(70)
                                THEN {<<"Strong", component, "background">>}
                                ELSE {})
                /\ areas = (IF score < Points(60)
                            THEN {<<ComponentTitle[component], "development needed">>}
                            ELSE IF score < Points(70)
                            THEN {<<ComponentTitle[component], "enhancement opportunity">>}
                            ELSE {})
                /\ Len(se_result.strengths) + Len(se_result.improvement_areas)
                    = Len(Components)

\* a result with a component in each of the four bands
C24_Witness ==
    /\ se_call = "calculate_overall_score"
    /\ \E a, b, c, d \in DOMAIN Components :
        /\ se_result.component_scores[Components[a]] >= Points(80)
        /\ se_result.component_scores[Components[b]] >= Points(70)
        /\ se_result.component_scores[Components[b]] < Points(80)
        /\ se_result.component_scores[Components[c]] >= Points(60)
        /\ se_result.component_scores[Components[c]] < Points(70)
        /\ se_result.component_scores[Components[d]] < Points(60)
        /\ Len(se_result.strengths) = 2
        /\ Len(se_result.improvement_areas) = 2

\* C25: the response of batch_analyze_cvs has exactly one entry of results per
\* uploaded file, also for a file its validation rejects: the length of
\* results is total_files and the number of entries with status "failed" is
\* the failed counter.
C25_OneResultPerFile ==
    batch_pc = "returned" =>
        /\ Len(batch_response.results) = batch_response.total_files
        /\ Cardinality({i \in DOMAIN batch_response.results :
                            batch_response.results[i].status = "failed"})
            = batch_response.failed

----------------------------------------------------------------------------
(* The endpoints /analyze-cv and /match-job (app/api/cv_analyzer.py) and   *)
(* the API key of the request (app/api/auth.py). One request is followed   *)
(* from the key as earlier requests have left it. db.commit() can raise;   *)
(* what the row holds after a commit that raised is its last committed     *)
(* value.                                                                  *)

\* The Authorization header: without the prefix "cvai_", the value of no
\* key, of a key with is_active false, or of an active key.
CredentialKinds == {"malformed", "unknown", "inactive", "active"}

\* verify_api_key: the status it raises, 200 when it returns the key. No
\* usage counter is read.
verify_api_key(credentials, key) ==
    IF credentials = "malformed" THEN 401
    ELSE IF credentials # "active" THEN 401
    ELSE 200

\* A variant that compares the usage counters of the key with its limits.
verify_api_key_limited(credentials, key) ==
    IF credentials = "malformed" THEN 401
    ELSE IF credentials # "active" THEN 401
    ELSE IF \/ key.requests_this_minute >= key.requests_per_minute
            \/ key.requests_this_hour >= key.requests_per_hour
            \/ key.requests_today >= key.requests_per_day
    THEN 429
    ELSE 200

\* The uploads of /analyze-cv: over MAX_FILE_SIZE, of a type that is not
\* allowed, one whose read() raises, or none of these.
UploadKinds == {"too_large", "bad_type", "unreadable", "valid"}

\* validate_file: the status it raises, 200 when it returns
validate_file(file) ==
    IF file = "too_large" THEN 413 ELSE IF file = "bad_type" THEN 400 ELSE 200

\* Usage counters earlier requests can have left within the limits: none,
\* /analyze-cv requests only (all counters equal), /batch-analyze requests
\* only (no minute counter) and /match-job requests only (day counter only).
UsedKeys ==
    { [NewKey EXCEPT !.total_requests = n, !.requests_today = n,
                     !.requests_this_hour = n, !.requests_this_minute = n]
        : n \in {0, requests_per_minute - 1, requests_per_minute} }
    \cup
    { [NewKey EXCEPT !.total_requests = n, !.requests_today = n, !.requests_this_hour = n]
        : n \in {requests_per_hour - 2, requests_per_hour} }
    \cup
    { [NewKey EXCEPT !.total_requests = n, !.requests_today = n]
        : n \in {requests_per_day - 1, requests_per_day} }

\* api_key.total_requests += 1 and the three counters that follow
CountRequest(key) ==
    [key EXCEPT !.total_requests = @ + 1, !.requests_today = @ + 1,
                !.requests_this_hour = @ + 1, !.requests_this_minute = @ + 1]

Respond(code) ==
    /\ analyze_pc' = "responded"
    /\ http_status' = code

\* analyze_cv up to the file content: the dependency verify_api_key, then
\* validate_file and file.read().
AnalyzeCv ==
    /\ analyze_pc = "idle"
    /\ http_status = 0
    /\ batch_pc = "idle"
    /\ \E credentials \in CredentialKinds, file \in UploadKinds :
        IF verify_api_key(credentials, api_key) # 200
        THEN Respond(verify_api_key(credentials, api_key))
        ELSE IF validate_file(file) # 200
        THEN Respond(validate_file(file))
        ELSE IF file = "unreadable"
        THEN Respond(500)
        ELSE /\ analyze_pc' = "validated"
             /\ http_status' = 0
    /\ UNCHANGED <<api_key, cv_record, pending_usage, se_vars, sm_vars, api_vars,
                   rj_vars, jm_vars, st_vars>>

\* db.add(cv_analysis); db.commit() with status "processing"
CreateRecord ==
    /\ analyze_pc = "validated"
    /\ \E committed \in BOOLEAN :
        IF committed
        THEN /\ cv_record' = [session |-> "processing", committed |-> "processing"]
             /\ analyze_pc' = "recorded"
             /\ http_status' = 0
        ELSE /\ cv_record' = [session |-> "processing", committed |-> "none"]
             /\ Respond(500)
    /\ UNCHANGED <<api_key, pending_usage, se_vars, sm_vars, api_vars, rj_vars, jm_vars, st_vars>>

\* The inner try up to its first db.commit(): perform_cv_analysis, then the
\* row is filled in with status "completed" and committed.
PerformAnalysis ==
    /\ analyze_pc = "recorded"
    /\ \E outcome \in {"analysis_raised", "commit_raised", "committed"} :
        /\ cv_record' =
            IF outcome = "analysis_raised" THEN cv_record
            ELSE IF outcome = "commit_raised" THEN [cv_record EXCEPT !.session = "completed"]
            ELSE [session |-> "completed", committed |-> "completed"]
        /\ analyze_pc' = IF outcome = "committed" THEN "completed" ELSE "handling"
    /\ UNCHANGED <<api_key, pending_usage, http_status, se_vars, sm_vars, api_vars,
                   rj_vars, jm_vars, st_vars>>

\* "Update API usage": the four counters and the second db.commit()
UpdateUsage ==
    /\ analyze_pc = "completed"
    /\ \E committed \in BOOLEAN :
        IF committed
        THEN /\ api_key' = CountRequest(api_key)
             /\ pending_usage' = FALSE
             /\ analyze_pc' = "counted"
        ELSE /\ api_key' = api_key
             /\ pending_usage' = TRUE
             /\ analyze_pc' = "handling"
    /\ UNCHANGED <<cv_record, http_status, se_vars, sm_vars, api_vars, rj_vars, jm_vars, st_vars>>

\* "Prepare response": CVAnalysisResponse(...) reads cv_analysis.created_at,
\* which the commit has expired, and validates the fields of the analysis.
PrepareResponse ==
    /\ analyze_pc = "counted"
    /\ \E built \in BOOLEAN :
        IF built THEN Respond(200)
        ELSE /\ analyze_pc' = "handling"
             /\ http_status' = 0
    /\ UNCHANGED <<api_key, cv_record, pending_usage, se_vars, sm_vars, api_vars,
                   rj_vars, jm_vars, st_vars>>

\* The handler of the inner try: cv_analysis.status = "failed"; db.commit();
\* raise e, which the outer handlers turn into the response. A commit that
\* succeeds writes the counters too when the session still holds them.
HandleFailure ==
    /\ analyze_pc = "handling"
    /\ \E committed \in BOOLEAN, held \in BOOLEAN :
        /\ cv_record' = [session |-> "failed",
                           committed |-> IF committed THEN "failed"
                                         ELSE cv_record.committed]
        /\ api_key' = IF committed /\ pending_usage /\ held THEN CountRequest(api_key)
                      ELSE api_key
    /\ pending_usage' = FALSE
    /\ Respond(500)
    /\ UNCHANGED <<se_vars, sm_vars, api_vars, rj_vars, jm_vars, st_vars>>

\* match_cv_against_job, as far as the key and the response are concerned:
\* the dependency verify_api_key, the query for the completed analysis, the
\* matching, and the commit of total_requests and requests_today.
MatchCvAgainstJob ==
    /\ analyze_pc = "idle"
    /\ http_status = 0
    /\ batch_pc = "idle"
    /\ \E credentials \in CredentialKinds,
          outcome \in {"not_found", "raised", "committed"} :
        IF verify_api_key(credentials, api_key) # 200
        THEN /\ http_status' = verify_api_key(credentials, api_key)
             /\ api_key' = api_key
        ELSE IF outcome = "not_found"
        THEN /\ http_status' = 404
             /\ api_key' = api_key
        ELSE IF outcome = "raised"
        THEN /\ http_status' = 500
             /\ api_key' = api_key
        ELSE /\ http_status' = 200
             /\ api_key' = [api_key EXCEPT !.total_requests = @ + 1,
                                           !.requests_today = @ + 1]
    /\ UNCHANGED <<analyze_pc, cv_record, pending_usage, se_vars, sm_vars, api_vars,
                   rj_vars, jm_vars, st_vars>>

InitApi == InitServices /\ api_key \in UsedKeys

NextApi ==
    \/ AnalyzeCv
    \/ CreateRecord
    \/ PerformAnalysis
    \/ UpdateUsage
    \/ PrepareResponse
    \/ HandleFailure
    \/ MatchCvAgainstJob
    \/ BatchAnalyzeCvs
    \/ ProcessFile
    \/ FinishBatch

SpecApi == InitApi /\ [][NextApi]_vars

\* C26: whatever the requests before, a request with an active key one of
\* whose usage counters has reached its limit is rejected, so no usage counter
\* of a key exceeds its limit.
C26_UsageWithinLimits ==
    /\ api_key.requests_this_minute <= api_key.requests_per_minute
    /\ api_key.requests_this_hour <= api_key.requests_per_hour
    /\ api_key.requests_today <= api_key.requests_per_day

\* C27: the committed status of the CVAnalysis row of an analyze_cv request
\* goes from "processing" to "completed" or to "failed" and then stays: once
\* "completed" is committed no later step sets it to "failed", and a request
\* answered with an error leaves no row with status "processing".
C27_StatusFinal ==
    /\ [][/\ cv_record.committed \in {"completed", "failed"}
             => cv_record'.committed = cv_record.committed
          /\ cv_record.committed = "processing"
             => cv_record'.committed \in {"processing", "completed", "failed"}]_vars
    /\ [](analyze_pc = "responded" /\ http_status # 200
          => cv_record.committed # "processing")

----------------------------------------------------------------------------
(* The job matching of perform_cv_analysis and of match_cv_against_job:    *)
(* calculate_job_compatibility on the analysis and the job description,    *)
(* then calculate_compatibility_percentage on the analysis and its result. *)

\* the most technical skills of an analysis that is matched
MaxMatchedCvSkills == 1

\* the analyses that are matched: the fields the two calls read
MatchedCvSet ==
    { [skills_analysis |-> sk, experience_analysis |-> ex, education_analysis |-> ed,
       text_quality |-> tq, structured_sections |-> [nonblank |-> n, long |-> n]]
      : sk \in {<<>>} \cup [technical_skills : ListsOf(JobCvSkillUniverse, MaxMatchedCvSkills),
                            soft_skills : {<<>>}],
        ex \in {<<>>} \cup [total_years : {0, 3, MaxHalfYears}],
        ed \in {<<>>} \cup [education_level_score : {60, 100}],
        tq \in {<<>>, [quality_score |-> 35], [quality_score |-> 85]},
        n \in {1, 4} }

PerformJobMatching ==
    /\ SeIdle
    /\ SmIdle
    /\ \E cv_analysis \in MatchedCvSet, job_description \in JobDescriptionSet :
        \E job_compatibility \in calculate_job_compatibility(cv_analysis, job_description) :
            /\ sm_call' = "calculate_job_compatibility"
            /\ sm_args' = [cv_analysis |-> cv_analysis, job_description |-> job_description]
            /\ sm_result' = job_compatibility
            /\ se_call' = "calculate_compatibility_percentage"
            /\ se_args' = [cv_analysis |-> cv_analysis, job_compatibility |-> job_compatibility]
            /\ se_result' \in calculate_compatibility_percentage(cv_analysis, job_compatibility)
    /\ UNCHANGED <<se_self, se_previous, rest_vars>>

NextMatching ==
    \/ PerformJobMatching
    \/ SeReturn
    \/ SmReturn

SpecMatching == Init /\ [][NextMatching]_vars

InMatching ==
    /\ sm_call = "calculate_job_compatibility"
    /\ se_call = "calculate_compatibility_percentage"

\* C28: when job_compatibility is what calculate_job_compatibility returned
\* for the analysis, compatibility_percentage lies in [0,100]: the base
\* compatibility is above 8 and the adjustments are -8 at least.
C28_MatchedPercentageInRange ==
    InMatching =>
        /\ 0 <= se_result.compatibility_percentage
        /\ se_result.compatibility_percentage <= Points(100)
        /\ se_args.job_compatibility.overall_compatibility > Points(8)
        /\ _calculate_compatibility_adjustments(se_args.cv_analysis).total_adjustment
            >= 0 - Points(8)

\* the least compatibility with the largest negative adjustment: required
\* skills the CV has none of, five years short, no education, a poor text
\* with one section
C28_Witness ==
    /\ InMatching
    /\ sm_result.skill_compatibility = Points(15)
    /\ sm_result.experience_compatibility = 0
    /\ sm_result.education_compatibility = Points(30)
    /\ _calculate_compatibility_adjustments(se_args.cv_analysis).total_adjustment
        = 0 - Points(8)
    /\ se_result.compatibility_percentage = 5500

\* C29: in every result of calculate_overall_score, score_grade and
\* percentile_rank are the grade and the percentile of the overall_score the
\* result reports, the score rounded to one decimal: a result reporting 90.0
\* has the grade Excellent and the percentile 95, and likewise at 80, 70, 60
\* and 50.
C29_GradeAndPercentileOfReportedScore ==
    se_call = "calculate_overall_score" =>
        /\ se_result.score_grade = _determine_score_grade(se_result.overall_score)
        /\ se_result.percentile_rank = _calculate_percentile_rank(se_result.overall_score)

----------------------------------------------------------------------------
(* Rajee.py: main(). Streamlit runs the script once for every interaction  *)
(* with the page; st.session_state outlives the runs. A run caches the     *)
(* uploads, processes every cached file when the extract button was        *)
(* pressed, then shows all_extracted_data and, when processing_complete,   *)
(* offers the spreadsheet. Files are named in the order they were cached.  *)

\* the most files in the cache
MaxCachedFiles == 4

\* The uploader of a run: empty, holding cached files only, or with one more
\* file that pdfplumber opens or does not open.
UploaderKinds == {"none", "cached", "new_pdf", "not_pdf"}

\* What extract_data_fields does for a file: it returns the fields, returns
\* a dictionary with the key "error", or raises.
ExtractionOutcomes == {"fields", "error", "raised"}

\* the loop over uploaded_files that fills the cache
CacheAfter(uploader) ==
    IF uploader = "new_pdf" /\ Len(cached_uploaded_files) < MaxCachedFiles
    THEN Append(cached_uploaded_files, Len(cached_uploaded_files) + 1)
    ELSE cached_uploaded_files

\* A variant of the loop body without the entry of the except branch.
AfterExtractionDropRaised(entries, filename, outcome) ==
    IF outcome = "raised" THEN entries
    ELSE Append(entries,
                [filename |-> filename,
                 data |-> IF outcome = "fields" THEN ("Declarant Sequence Year" :> "found")
                          ELSE ("error" :> "No text could be extracted")])

\* The body of the loop over the cache: the entry of the try branch or of
\* the except branch is appended.
AfterExtraction(entries, filename, outcome) ==
    Append(entries,
           [filename |-> filename,
            data |-> IF outcome = "fields" THEN ("Declarant Sequence Year" :> "found")
                     ELSE IF outcome = "error" THEN ("error" :> "No text could be extracted")
                     ELSE ("error" :> "Processing error")])

\* all_files_rows_for_excel: a row per entry, an error row for a dictionary
\* with the key "error"
RowsForExcel(entries) ==
    [i \in DOMAIN entries |->
        [source_file |-> entries[i].filename,
         is_error_state |-> "error" \in DOMAIN entries[i].data]]

\* the end of a run: the spreadsheet is built when there are entries and
\* processing_complete is set
SpreadsheetOf(entries, complete) ==
    IF entries # <<>> /\ complete THEN RowsForExcel(entries) ELSE <<>>

\* A run of the script in which the extract button was not pressed.
RunScript ==
    /\ main_pc = "idle"
    /\ \E uploader \in UploaderKinds :
        /\ uploader = "cached" => cached_uploaded_files # <<>>
        /\ cached_uploaded_files' =
            IF uploader = "none" THEN cached_uploaded_files ELSE CacheAfter(uploader)
    /\ spreadsheet' = SpreadsheetOf(all_extracted_data, processing_complete)
    /\ UNCHANGED <<main_pc, all_extracted_data, processing_complete, file_index,
                   se_vars, sm_vars, api_vars, rj_vars, jm_vars, key_vars>>

\* A run in which the extract button was pressed, up to the loop over the
\* cache; the button is on the page when the uploader is not empty.
PressExtract ==
    /\ main_pc = "idle"
    /\ \E uploader \in UploaderKinds \ {"none"} :
        /\ uploader = "cached" => cached_uploaded_files # <<>>
        /\ cached_uploaded_files' = CacheAfter(uploader)
    /\ all_extracted_data' = <<>>
    /\ processing_complete' = FALSE
    /\ file_index' = 0
    /\ main_pc' = "processing"
    /\ spreadsheet' = <<>>
    /\ UNCHANGED <<se_vars, sm_vars, api_vars, rj_vars, jm_vars, key_vars>>

\* One pass of the loop over the cache.
ProcessCachedFile ==
    /\ main_pc = "processing"
    /\ file_index < Len(cached_uploaded_files)
    /\ \E outcome \in ExtractionOutcomes :
        all_extracted_data' =
            AfterExtraction(all_extracted_data, cached_uploaded_files[file_index + 1], outcome)
    /\ file_index' = file_index + 1
    /\ UNCHANGED <<main_pc, cached_uploaded_files, processing_complete, spreadsheet,
                   se_vars, sm_vars, api_vars, rj_vars, jm_vars, key_vars>>

\* After the loop: processing_complete is set and the rest of the run shows
\* the entries and builds the spreadsheet.
FinishExtract ==
    /\ main_pc = "processing"
    /\ file_index = Len(cached_uploaded_files)
    /\ processing_complete' = TRUE
    /\ spreadsheet' = SpreadsheetOf(all_extracted_data, TRUE)
    /\ main_pc' = "idle"
    /\ UNCHANGED <<cached_uploaded_files, all_extracted_data, file_index,
                   se_vars, sm_vars, api_vars, rj_vars, jm_vars, key_vars>>

NextMain ==
    \/ RunScript
    \/ PressExtract
    \/ ProcessCachedFile
    \/ FinishExtract

SpecMain == Init /\ [][NextMain]_vars

\* the entries are those of the first files of the cache, one each, in order
EntriesFollowCache ==
    /\ Len(all_extracted_data) <= Len(cached_uploaded_files)
    /\ \A i \in DOMAIN all_extracted_data :
        all_extracted_data[i].filename = cached_uploaded_files[i]

\* C30: a press of the extract button resets all_extracted_data and the loop
\* appends one entry per cached file in the order of the cache, whatever the
\* extraction does (fields, an error dictionary or an exception);
\* processing_complete is false while processing and becomes true only when
\* every cached file has its entry, and the spreadsheet built then has
\* exactly one row per cached file. Whenever a spreadsheet is built its rows
\* are those of the entries, in order.
C30_OneEntryPerFileOfThePress ==
    /\ [](/\ EntriesFollowCache
          /\ main_pc = "processing"
                => (~processing_complete /\ Len(all_extracted_data) = file_index)
          /\ spreadsheet # <<>>
                => /\ processing_complete
                   /\ Len(spreadsheet) = Len(all_extracted_data)
                   /\ \A i \in DOMAIN spreadsheet :
                        /\ spreadsheet[i].source_file = cached_uploaded_files[i]
                        /\ spreadsheet[i].is_error_state
                            = ("error" \in DOMAIN all_extracted_data[i].data))
    /\ [][/\ (main_pc = "idle" /\ main_pc' = "processing")
                => (all_extracted_data' = <<>> /\ ~processing_complete')
          /\ (~processing_complete /\ processing_complete')
                => /\ Len(all_extracted_data') = Len(cached_uploaded_files')
                   /\ Len(spreadsheet') = Len(cached_uploaded_files')]_vars

\* after a press with three cached files, one with fields, one with an error
\* dictionary and one whose extraction raised, the spreadsheet has three rows
C30_Witness ==
    /\ main_pc = "idle"
    /\ processing_complete
    /\ Len(cached_uploaded_files) = 3
    /\ Len(spreadsheet) = 3
    /\ all_extracted_data[1].data = ("Declarant Sequence Year" :> "found")
    /\ all_extracted_data[2].data = ("error" :> "No text could be extracted")
    /\ all_extracted_data[3].data = ("error" :> "Processing error")

=============================================================================
